---------------------------- MODULE Spec2Model ----------------------------
(***************************************************************************)
(* A model of the lab-note structuring engine of Picnotebook               *)
(* (src/lab_note_parser.py): the regular-expression field, section and     *)
(* measurement extractors, and the SQLite record store with its queries.   *)
(*                                                                         *)
(* Text is a TLA+ string; a character is a string of length 1.  Python's   *)
(* `re` is modelled by a backtracking matcher that returns the match       *)
(* states in the priority order Python explores them, so the first one is  *)
(* the match Python reports.                                               *)
(***************************************************************************)
EXTENDS Integers, Sequences, FiniteSets, TLC

-----------------------------------------------------------------------------
(* Characters and strings                                                  *)

Char(s, i) == SubSeq(s, i, i)

UpperStr == "ABCDEFGHIJKLMNOPQRSTUVWXYZ"
LowerStr == "abcdefghijklmnopqrstuvwxyz"
DigitStr == "0123456789"

CharsOf(s) == {Char(s, i) : i \in 1..Len(s)}

Upper == CharsOf(UpperStr)
Lower == CharsOf(LowerStr)
Digit == CharsOf(DigitStr)

IndexIn(c, s) == CHOOSE i \in 1..Len(s) : Char(s, i) = c

\* str.lower() / str.upper() of one ASCII character
ToLower(c) == IF c \in Upper THEN Char(LowerStr, IndexIn(c, UpperStr)) ELSE c
ToUpper(c) == IF c \in Lower THEN Char(UpperStr, IndexIn(c, LowerStr)) ELSE c

\* the characters Python's \s, \w and \d match (ASCII part)
SpaceChars == {" ", "\n", "\t", "\r"}
WordChars == Upper \cup Lower \cup Digit \cup {"_"}

IsSpace(c) == c \in SpaceChars

RECURSIVE LStrip(_)
LStrip(s) == IF Len(s) > 0 /\ IsSpace(Char(s, 1)) THEN LStrip(SubSeq(s, 2, Len(s))) ELSE s

RECURSIVE RStrip(_)
RStrip(s) == IF Len(s) > 0 /\ IsSpace(Char(s, Len(s))) THEN RStrip(SubSeq(s, 1, Len(s) - 1)) ELSE s

\* str.strip()
Strip(s) == LStrip(RStrip(s))

\* the least element of a non-empty set of integers
Least(S) == CHOOSE i \in S : \A j \in S : i <= j

RECURSIVE SplitFrom(_, _)
SplitFrom(s, start) ==
    LET nl == {i \in start..Len(s) : Char(s, i) = "\n"}
    IN  IF nl = {} THEN <<SubSeq(s, start, Len(s))>>
        ELSE <<SubSeq(s, start, Least(nl) - 1)>> \o SplitFrom(s, Least(nl) + 1)

\* str.split('\n')
SplitLines(s) == SplitFrom(s, 1)

RECURSIVE JoinLines(_)
\* '\n'.join(lines)
JoinLines(lines) ==
    IF Len(lines) = 0 THEN ""
    ELSE IF Len(lines) = 1 THEN lines[1]
    ELSE lines[1] \o "\n" \o JoinLines(Tail(lines))

-----------------------------------------------------------------------------
(* Python `re`: patterns as trees, matched by backtracking.                *)
(* A match state is [pos, gs, ge]: the next position to read and the span  *)
(* of capture group 1 (0, 0 while unset).                                  *)

Chr(S) == [t |-> "chr", cs |-> S]
Cat(items) == [t |-> "cat", items |-> items]
Alt(items) == [t |-> "alt", items |-> items]
Star(r) == [t |-> "star", r |-> r]
LazyStar(r) == [t |-> "lazystar", r |-> r]
Opt(r) == [t |-> "opt", r |-> r]
Grp(r) == [t |-> "grp", r |-> r]
Ahead(r) == [t |-> "ahead", r |-> r]
Eol == [t |-> "eol"]
Dot == [t |-> "dot"]
Bos == [t |-> "bos"]

Plus(r) == Cat(<<r, Star(r)>>)
LazyPlus(r) == Cat(<<r, LazyStar(r)>>)

\* one literal character under re.IGNORECASE
LitChar(c) == Chr({ToLower(c), ToUpper(c)})

\* a literal string under re.IGNORECASE
Lit(s) == Cat([i \in 1..Len(s) |-> LitChar(Char(s, i))])

RECURSIVE Rep(_, _, _)
\* r{m,n}, greedy
Rep(r, m, n) ==
    IF m > 0 THEN Cat(<<r, Rep(r, m - 1, n - 1)>>)
    ELSE IF n > 0 THEN Opt(Cat(<<r, Rep(r, 0, n - 1)>>))
    ELSE Cat(<<>>)

RECURSIVE Run(_, _, _, _)
RECURSIVE RunAll(_, _, _, _)
RECURSIVE RunUnary(_, _, _, _, _)
RECURSIVE RunCat(_, _, _, _, _)
RECURSIVE RunAlt(_, _, _, _, _)

\* the states after matching re from each state of sts, in priority order
RunAll(re, s, ml, sts) ==
    IF Len(sts) = 0 THEN <<>>
    ELSE Run(re, s, ml, sts[1]) \o RunAll(re, s, ml, Tail(sts))

RunCat(items, k, s, ml, sts) ==
    IF k > Len(items) \/ Len(sts) = 0 THEN sts
    ELSE RunCat(items, k + 1, s, ml, RunAll(items[k], s, ml, sts))

RunAlt(items, k, s, ml, st) ==
    IF k > Len(items) THEN <<>>
    ELSE Run(items[k], s, ml, st) \o RunAlt(items, k + 1, s, ml, st)

\* a node with one operand, given the states `inner` its operand reaches from st
RunUnary(re, s, ml, st, inner) ==
    CASE re.t = "opt" -> inner \o <<st>>
      [] re.t = "star" ->
            RunAll(re, s, ml, SelectSeq(inner, LAMBDA x : x.pos > st.pos)) \o <<st>>
      [] re.t = "lazystar" ->
            <<st>> \o RunAll(re, s, ml, SelectSeq(inner, LAMBDA x : x.pos > st.pos))
      [] re.t = "grp" ->
            [i \in 1..Len(inner) |-> [inner[i] EXCEPT !.gs = st.pos, !.ge = inner[i].pos]]
      [] re.t = "ahead" -> IF Len(inner) > 0 THEN <<st>> ELSE <<>>

\* the states after matching re from state st, in priority order
\* (ml: re.MULTILINE)
Run(re, s, ml, st) ==
    CASE re.t = "chr" ->
            IF st.pos <= Len(s) /\ Char(s, st.pos) \in re.cs
            THEN <<[st EXCEPT !.pos = @ + 1]>> ELSE <<>>
      [] re.t = "dot" ->
            IF st.pos <= Len(s) /\ Char(s, st.pos) # "\n"
            THEN <<[st EXCEPT !.pos = @ + 1]>> ELSE <<>>
      [] re.t = "cat" -> RunCat(re.items, 1, s, ml, <<st>>)
      [] re.t = "alt" -> RunAlt(re.items, 1, s, ml, st)
      [] re.t = "eol" ->
            IF st.pos = Len(s) + 1
               \/ (st.pos = Len(s) /\ Char(s, st.pos) = "\n")
               \/ (ml /\ st.pos <= Len(s) /\ Char(s, st.pos) = "\n")
            THEN <<st>> ELSE <<>>
      [] re.t = "bos" -> IF st.pos = 1 THEN <<st>> ELSE <<>>
      [] OTHER -> RunUnary(re, s, ml, st, Run(re.r, s, ml, st))

NoMatch == [found |-> FALSE, start |-> 0, end |-> 0, group |-> ""]

\* the match object for the states r reached from position i: the first state
\* is the match Python reports
MatchOf(r, s, i) ==
    IF Len(r) = 0 THEN NoMatch
    ELSE [found |-> TRUE, start |-> i, end |-> r[1].pos,
          group |-> IF r[1].gs = 0 THEN "" ELSE SubSeq(s, r[1].gs, r[1].ge - 1)]

\* the match when the pattern is tried at position i
MatchAt(re, s, ml, i) == MatchOf(Run(re, s, ml, [pos |-> i, gs |-> 0, ge |-> 0]), s, i)

\* the leftmost of the matches tried[j], j the start position
Leftmost(tried) ==
    LET hits == {j \in DOMAIN tried : tried[j].found}
    IN  IF hits = {} THEN NoMatch ELSE tried[Least(hits)]

\* the leftmost match that starts at position i or later
SearchFrom(re, s, ml, i) == Leftmost([j \in i..(Len(s) + 1) |-> MatchAt(re, s, ml, j)])

\* re.search(pattern, s, flags): the leftmost match
ReSearch(re, s, ml) == SearchFrom(re, s, ml, 1)

\* re.match(pattern, s, flags): a match at the start only
ReMatch(re, s, ml) == MatchAt(re, s, ml, 1)

RECURSIVE FindIterFrom(_, _, _, _)
RECURSIVE FindIterAfter(_, _, _, _)
\* the match m and the matches that follow it (an empty match moves on by one)
FindIterAfter(m, re, s, ml) ==
    IF ~m.found THEN <<>>
    ELSE <<m>> \o FindIterFrom(re, s, ml, IF m.end > m.start THEN m.end ELSE m.end + 1)

FindIterFrom(re, s, ml, i) == FindIterAfter(SearchFrom(re, s, ml, i), re, s, ml)

\* re.finditer(pattern, s, flags): the non-overlapping matches, left to right
ReFindIter(re, s, ml) == FindIterFrom(re, s, ml, 1)

-----------------------------------------------------------------------------
(* Numbers.  A Python float is modelled as an integer count of thousandths *)
(* (50.0 is 50000); the texts of the model carry at most three decimals.   *)

DigitVal(c) == IndexIn(c, DigitStr) - 1

RECURSIVE DigitsToInt(_)
DigitsToInt(s) ==
    IF Len(s) = 0 THEN 0
    ELSE 10 * DigitsToInt(SubSeq(s, 1, Len(s) - 1)) + DigitVal(Char(s, Len(s)))

RECURSIVE DigitRun(_, _)
\* the length of the run of digits of s that starts at position i
DigitRun(s, i) ==
    IF i <= Len(s) /\ Char(s, i) \in Digit THEN 1 + DigitRun(s, i + 1) ELSE 0

\* the decimal number written at the start of s: digits, then "." and digits
ParseDecimal(s) ==
    LET n == DigitRun(s, 1)
        hasFrac == n + 1 <= Len(s) /\ Char(s, n + 1) = "." /\ DigitRun(s, n + 2) > 0
        f == IF hasFrac THEN DigitRun(s, n + 2) ELSE 0
        frac == SubSeq(SubSeq(s, n + 2, n + 1 + f) \o "000", 1, 3)
    IN  1000 * DigitsToInt(SubSeq(s, 1, n)) + DigitsToInt(frac)

\* float(s) for the digit strings the measurement patterns capture
PyFloat(s) == ParseDecimal(s)

RECURSIVE IntToStr(_)
IntToStr(n) ==
    IF n < 10 THEN Char(DigitStr, n + 1)
    ELSE IntToStr(n \div 10) \o Char(DigitStr, (n % 10) + 1)

\* str(x) of a float: the shortest decimal, with at least one fractional digit
PyStr(v) ==
    LET w == v \div 1000
        m == v % 1000
        frac == IF m = 0 THEN "0"
                ELSE IF m % 100 = 0 THEN IntToStr(m \div 100)
                ELSE IF m % 10 = 0 THEN (IF m < 100 THEN "0" ELSE "") \o IntToStr(m \div 10)
                ELSE (IF m < 10 THEN "00" ELSE IF m < 100 THEN "0" ELSE "") \o IntToStr(m)
    IN  IntToStr(w) \o "." \o frac

\* SQLite CAST(text AS REAL): the number the longest numeric prefix denotes
SqlCastReal(s) == ParseDecimal(s)

-----------------------------------------------------------------------------
(* parse_text_to_json: the field patterns                                  *)

WS == Chr(SpaceChars)
D == Chr(Digit)
IdChar == Chr(Upper \cup Lower \cup Digit \cup {"-"})
NameChar == Chr(WordChars \cup SpaceChars \cup {"."})
DateSep == Chr({"/", "-"})
LineEnd == Ahead(Alt(<<Chr({"\n"}), Eol>>))

\* the tail  (?:ID|#)?:?\s*([A-Z0-9-]+)  shared by the first two id patterns
IdTail == <<Opt(Alt(<<Lit("ID"), Lit("#")>>)), Opt(Lit(":")), Star(WS), Grp(Plus(IdChar))>>

\* the tail  :?\s*((?:Dr\.?\s*)?[\w\s.]+?)(?=\n|$)  of the researcher patterns
NameTail ==
    <<Opt(Lit(":")), Star(WS),
      Grp(Cat(<<Opt(Cat(<<Lit("Dr"), Opt(Lit(".")), Star(WS)>>)), LazyPlus(NameChar)>>)),
      LineEnd>>

\* the tail  :?\s*(.*?)(?=\n|$)  of the title patterns
TitleTail == <<Opt(Lit(":")), Star(WS), Grp(LazyStar(Dot)), LineEnd>>

ShortDate == Cat(<<Rep(D, 1, 2), DateSep, Rep(D, 1, 2), DateSep, Rep(D, 2, 4)>>)

FieldNames == <<"experiment_id", "date", "researcher", "title">>

patterns ==
    [experiment_id |->
        <<Cat(<<Lit("Experiment"), Star(WS)>> \o IdTail),
          Cat(<<Lit("Exp"), Star(WS)>> \o IdTail),
          Cat(<<Lit("ID"), Opt(Lit(":")), Star(WS), Grp(Plus(IdChar))>>)>>,
     date |->
        <<Cat(<<Lit("Date"), Opt(Lit(":")), Star(WS),
                Grp(Cat(<<Rep(D, 4, 4), Lit("-"), Rep(D, 2, 2), Lit("-"), Rep(D, 2, 2)>>))>>),
          Cat(<<Lit("Date"), Opt(Lit(":")), Star(WS), Grp(ShortDate)>>),
          Grp(ShortDate)>>,
     researcher |->
        <<Cat(<<Lit("Researcher")>> \o NameTail),
          Cat(<<Alt(<<Lit("By"), Lit("Author")>>)>> \o NameTail),
          Cat(<<Lit("Name")>> \o NameTail)>>,
     title |->
        <<Cat(<<Lit("Title")>> \o TitleTail),
          Cat(<<Lit("Experiment")>> \o TitleTail),
          Cat(<<Lit("Subject")>> \o TitleTail)>>]

\* variant: the pattern whose match begins earliest in the text wins
EarliestMatch(pattern_list, k, text) ==
    LET found == [j \in k..Len(pattern_list) |-> ReSearch(pattern_list[j], text, TRUE)]
        hits == {j \in DOMAIN found : found[j].found}
    IN  IF hits = {} THEN ""
        ELSE Strip(found[CHOOSE j \in hits :
                             \A i \in hits :
                                 \/ found[j].start < found[i].start
                                 \/ (found[j].start = found[i].start /\ j <= i)].group)

RECURSIVE FirstMatch(_, _, _)
RECURSIVE FirstMatchOr(_, _, _, _)
\* "if match: data[field] = match.group(1).strip(); break", else the next pattern
FirstMatchOr(match, pattern_list, k, text) ==
    IF match.found THEN Strip(match.group) ELSE FirstMatch(pattern_list, k + 1, text)

\* the loop over pattern_list: the trimmed group 1 of the first pattern that
\* matches anywhere in the text, "" when none does
FirstMatch(pattern_list, k, text) ==
    IF k > Len(pattern_list) THEN ""
    ELSE FirstMatchOr(ReSearch(pattern_list[k], text, TRUE), pattern_list, k, text)

ExtractField(field, text) == FirstMatch(patterns[field], 1, text)

-----------------------------------------------------------------------------
(* _extract_sections                                                       *)

SectionNames ==
    <<"methods", "results", "observations", "materials", "procedure", "discussion",
      "conclusion">>

\* keyword? : the keyword with an optional last letter s
Plural(w) == Cat(<<Lit(w), Opt(Lit("s"))>>)

section_keywords ==
    [methods |-> <<Plural("method"), Lit("procedure"), Lit("protocol"),
                   Cat(<<Lit("experimental"), Plus(WS), Lit("setup")>>)>>,
     results |-> <<Plural("result"), Lit("findings"), Lit("data"), Plural("outcome")>>,
     observations |-> <<Plural("observation"), Plural("note"), Plural("comment")>>,
     materials |-> <<Plural("material"), Plural("reagent"), Lit("equipment"), Lit("supplies")>>,
     procedure |-> <<Lit("procedure"), Plural("step"), Lit("process")>>,
     discussion |-> <<Lit("discussion"), Lit("analysis"), Lit("interpretation")>>,
     conclusion |-> <<Lit("conclusion"), Lit("summary"),
                      Cat(<<Lit("final"), Plus(WS), Plural("thought")>>)>>]

\* rf"^{keyword}:?"
HeaderPattern(keyword) == Cat(<<Bos, keyword, Opt(Lit(":"))>>)

RECURSIVE RemoveMatches(_, _, _)
RemoveMatches(s, ms, from) ==
    IF Len(ms) = 0 THEN SubSeq(s, from, Len(s))
    ELSE SubSeq(s, from, ms[1].start - 1) \o RemoveMatches(s, Tail(ms), ms[1].end)

\* re.sub(pattern, '', s, flags=re.IGNORECASE)
ReSubEmpty(re, s) == RemoveMatches(s, ReFindIter(re, s, FALSE), 1)

NoHeader == [found |-> FALSE, section |-> "", after |-> ""]

RECURSIVE KeywordsFromLastSection(_, _)
\* variant: the sections tried from the last declared to the first
KeywordsFromLastSection(keywords, i) ==
    IF i > Len(SectionNames) THEN <<>>
    ELSE KeywordsFromLastSection(keywords, i + 1)
         \o [k \in 1..Len(keywords[SectionNames[i]]) |->
                [section |-> SectionNames[i],
                 pattern |-> HeaderPattern(keywords[SectionNames[i]][k])]]

RECURSIVE KeywordsFrom(_, _)
\* section_keywords.items() with each keyword list unrolled: the (section,
\* header pattern) pairs in the order the nested loops try them
KeywordsFrom(keywords, i) ==
    IF i > Len(SectionNames) THEN <<>>
    ELSE [k \in 1..Len(keywords[SectionNames[i]]) |->
             [section |-> SectionNames[i],
              pattern |-> HeaderPattern(keywords[SectionNames[i]][k])]]
         \o KeywordsFrom(keywords, i + 1)

\* the header a keyword makes of the line: its section and the rest of the
\* line, re.sub(pattern, '', line, flags=re.IGNORECASE).strip()
HeaderOf(h, line) ==
    [found |-> TRUE, section |-> h.section, after |-> Strip(ReSubEmpty(h.pattern, line))]

\* the header of the first of the keywords `hits` that matched
FirstHeader(headers, line, hits) ==
    IF hits = {} THEN NoHeader ELSE HeaderOf(headers[Least(hits)], line)

\* the two nested loops over section_keywords with their breaks: the first
\* (section, keyword) in declaration order whose header pattern matches line
FindHeader(headers, line) ==
    FirstHeader(headers, line,
                {k \in 1..Len(headers) : ReMatch(headers[k].pattern, line, FALSE).found})

EmptySections == [n \in {SectionNames[i] : i \in 1..Len(SectionNames)} |-> ""]

\* variant: the buffer is added to what the section holds already
FlushAppending(st) ==
    IF st.current_section # "" /\ Len(st.section_content) > 0
    THEN [st.sections EXCEPT ![st.current_section] =
              IF @ = "" THEN Strip(JoinLines(st.section_content))
              ELSE @ \o "\n" \o Strip(JoinLines(st.section_content))]
    ELSE st.sections

\* variant: an open section is written even when its buffer is empty
FlushEvenIfEmpty(st) ==
    IF st.current_section # ""
    THEN [st.sections EXCEPT ![st.current_section] = Strip(JoinLines(st.section_content))]
    ELSE st.sections

\* "if current_section and section_content: sections[current_section] = ..."
Flush(st) ==
    IF st.current_section # "" /\ Len(st.section_content) > 0
    THEN [st.sections EXCEPT ![st.current_section] = Strip(JoinLines(st.section_content))]
    ELSE st.sections

\* variant: a header that does not reset the buffer
SectionLineKeepingBuffer(st, line, h) ==
    IF h.found
    THEN [sections |-> Flush(st),
          current_section |-> h.section,
          section_content |-> st.section_content
                                  \o (IF h.after # "" /\ h.after # ":" THEN <<h.after>>
                                      ELSE <<>>)]
    ELSE IF st.current_section # ""
    THEN [st EXCEPT !.section_content = Append(@, line)]
    ELSE st

\* variant: a line met before any header opens methods
SectionLineOpeningMethods(st, line, h) ==
    IF h.found
    THEN [sections |-> Flush(st),
          current_section |-> h.section,
          section_content |-> IF h.after # "" /\ h.after # ":" THEN <<h.after>> ELSE <<>>]
    ELSE IF st.current_section # ""
    THEN [st EXCEPT !.section_content = Append(@, line)]
    ELSE [st EXCEPT !.current_section = "methods", !.section_content = <<line>>]

\* a non-blank line, given the header h found on it
SectionLine(st, line, h) ==
    IF h.found
    THEN [sections |-> Flush(st),
          current_section |-> h.section,
          section_content |-> IF h.after # "" /\ h.after # ":" THEN <<h.after>> ELSE <<>>]
    ELSE IF st.current_section # ""
    THEN [st EXCEPT !.section_content = Append(@, line)]
    ELSE st

\* one iteration of "for line in lines", line already stripped
SectionStep(st, headers, line) ==
    IF line = "" THEN st ELSE SectionLine(st, line, FindHeader(headers, line))

RECURSIVE SectionLoop(_, _, _, _)
SectionLoop(st, headers, lines, i) ==
    IF i > Len(lines) THEN st
    ELSE SectionLoop(SectionStep(st, headers, Strip(lines[i])), headers, lines, i + 1)

_extract_sections(text) ==
    Flush(SectionLoop([sections |-> EmptySections, current_section |-> "",
                       section_content |-> <<>>],
                      KeywordsFrom(section_keywords, 1), SplitLines(text), 1))

-----------------------------------------------------------------------------
(* _extract_measurements                                                   *)

\* (\d+(?:\.\d+)?)
Number == Grp(Cat(<<Plus(D), Opt(Cat(<<Lit("."), Plus(D)>>))>>))

measurement_patterns ==
    <<[pattern |-> Cat(<<Number, Star(WS),
                         Alt(<<Lit("째C"), Lit("C"),
                               Cat(<<Lit("degree"), Opt(Lit("s")), Star(WS),
                                     Alt(<<Lit("C"), Lit("Celsius")>>)>>)>>)>>),
       type |-> "temperature", unit |-> "째C"],
      [pattern |-> Cat(<<Lit("pH"), Opt(Lit(":")), Star(WS), Number>>),
       type |-> "pH", unit |-> ""],
      [pattern |-> Cat(<<Number, Star(WS),
                         Alt(<<Lit("ml"), Lit("mL"), Cat(<<Lit("milliliter"), Opt(Lit("s"))>>)>>)>>),
       type |-> "volume", unit |-> "mL"],
      [pattern |-> Cat(<<Number, Star(WS),
                         Alt(<<Lit("g"), Cat(<<Lit("gram"), Opt(Lit("s"))>>)>>)>>),
       type |-> "mass", unit |-> "g"],
      [pattern |-> Cat(<<Number, Star(WS),
                         Alt(<<Lit("min"), Cat(<<Lit("minute"), Opt(Lit("s"))>>)>>)>>),
       type |-> "time", unit |-> "min"],
      [pattern |-> Cat(<<Number, Star(WS),
                         Alt(<<Lit("hr"), Cat(<<Lit("hour"), Opt(Lit("s"))>>)>>)>>),
       type |-> "time", unit |-> "hr"],
      [pattern |-> Cat(<<Number, Star(WS), Lit("M")>>),
       type |-> "concentration", unit |-> "M"],
      [pattern |-> Cat(<<Number, Star(WS), Alt(<<Lit("%"), Lit("percent")>>)>>),
       type |-> "percentage", unit |-> "%"]>>

\* the inner loop "for match in matches"
MeasurementsOf(matches, p, text) ==
    [i \in 1..Len(matches) |->
        [type |-> p.type, value |-> PyFloat(matches[i].group), unit |-> p.unit,
         raw_text |-> SubSeq(text, matches[i].start, matches[i].end - 1)]]

RECURSIVE MeasurementLoopLaterFirst(_, _, _)
\* variant: the matches of a later pattern put before those of an earlier one
MeasurementLoopLaterFirst(ps, text, k) ==
    IF k > Len(ps) THEN <<>>
    ELSE MeasurementLoopLaterFirst(ps, text, k + 1)
         \o MeasurementsOf(ReFindIter(ps[k].pattern, text, FALSE), ps[k], text)

RECURSIVE MeasurementLoop(_, _, _)
\* "for pattern, measurement_type, unit in measurement_patterns"
MeasurementLoop(ps, text, k) ==
    IF k > Len(ps) THEN <<>>
    ELSE MeasurementsOf(ReFindIter(ps[k].pattern, text, FALSE), ps[k], text)
         \o MeasurementLoop(ps, text, k + 1)

_extract_measurements(text) == MeasurementLoop(measurement_patterns, text, 1)

-----------------------------------------------------------------------------
(* parse_text_to_json                                                      *)

TwoDigits(n) == IntToStr(n \div 10) \o IntToStr(n % 10)

\* variant: strftime("%Y%m%d_%H%M"), the seconds left out
strftime_minutes(now) == "20250803_12" \o TwoDigits(now \div 60) \o "00"

\* datetime.now().strftime("%Y%m%d_%H%M%S") when the clock reads `now`
\* seconds after 2025-08-03 12:00:00
strftime(now) == "20250803_12" \o TwoDigits(now \div 60) \o TwoDigits(now % 60)

\* variant: an experiment_id that is left empty when no pattern matched
ParsedRecordWithoutId(fields, sections, measurements, text, now) ==
    [experiment_id |-> fields.experiment_id,
     date |-> fields.date,
     researcher |-> fields.researcher,
     title |-> fields.title,
     methods |-> sections["methods"],
     results |-> sections["results"],
     observations |-> sections["observations"],
     raw_text |-> Strip(text),
     measurements |-> measurements,
     sections |-> sections]

\* variant: raw_text keeps the text as it was handed in
ParsedRecordVerbatim(fields, sections, measurements, text, now) ==
    [experiment_id |-> IF fields.experiment_id = "" THEN "EXP_" \o strftime(now)
                       ELSE fields.experiment_id,
     date |-> fields.date,
     researcher |-> fields.researcher,
     title |-> fields.title,
     methods |-> sections["methods"],
     results |-> sections["results"],
     observations |-> sections["observations"],
     raw_text |-> text,
     measurements |-> measurements,
     sections |-> sections]

\* the record parse_text_to_json returns, given the extracted parts
ParsedRecord(fields, sections, measurements, text, now) ==
    [experiment_id |-> IF fields.experiment_id = "" THEN "EXP_" \o strftime(now)
                       ELSE fields.experiment_id,
     date |-> fields.date,
     researcher |-> fields.researcher,
     title |-> fields.title,
     methods |-> sections["methods"],
     results |-> sections["results"],
     observations |-> sections["observations"],
     raw_text |-> Strip(text),
     measurements |-> measurements,
     sections |-> sections]

parse_text_to_json(text, now) ==
    ParsedRecord([field \in {"experiment_id", "date", "researcher", "title"}
                     |-> ExtractField(field, text)],
                 _extract_sections(text), _extract_measurements(text), text, now)

-----------------------------------------------------------------------------
(* The record store: the SQLite file lab_records.db and the connections    *)
(* of the handlers that write it.                                          *)

\* bounds of the model
MaxCalls == 2
MaxClock == 1
MaxLimit == 1

\* the request handlers that run process_extracted_text concurrently
Procs == {"w1", "w2"}

\* the texts handed to process_extracted_text
Texts ==
    {"ID: A1\nTitle: Heat\nboil 25C",
     "ID: A1\nTitle: cool\nMethods:\nheat 50C",
     " ID: B2\nwe heat pH 7\n",
     "heat it"}

\* Python None and a present optional value
None == <<>>
Some(x) == <<x>>

\* the arguments of the query handlers
Queries == {"heat", "h_at", "B2"}
GetIds == {"A1", "a1", "B2"}
\* "limit: int = 50"
DefaultLimit == 50
Limits == (0..MaxLimit) \cup {DefaultLimit}

\* a float argument, in the thousandths of the model
Float(n) == 1000 * n

\* (measurement_type, min_value, max_value) of search_measurements
Filters ==
    {<<None, None, None>>,
     <<Some("temperature"), Some(Float(30)), Some(Float(60))>>,
     <<Some("TEMP"), Some(Float(25)), Some(Float(50))>>,
     <<None, Some(Float(30)), None>>}

\* (query, limit) of search_experiments and ((type, min, max), limit) of
\* search_measurements: every query with the default limit, and one that
\* selects the most rows with a limit that can cut the result short
SearchRequests == (Queries \X {DefaultLimit}) \cup {<<"heat", MaxLimit>>}
MeasurementRequests == (Filters \X {DefaultLimit}) \cup {<<<<None, None, None>>, MaxLimit>>}

\* "limit = request.args.get('limit', 10, type=int)"
DefaultSuggestionLimit == 10

\* (q, limit) of the requests to /search_suggestions
SuggestionRequests ==
    {<<"A", DefaultSuggestionLimit>>,
     <<" t", DefaultSuggestionLimit>>,
     <<"at", DefaultSuggestionLimit>>}

RECURSIVE LikeFrom(_, _, _, _)
LikeFrom(p, i, s, j) ==
    IF i > Len(p) THEN j > Len(s)
    ELSE IF Char(p, i) = "%" THEN \E k \in j..(Len(s) + 1) : LikeFrom(p, i + 1, s, k)
    ELSE /\ j <= Len(s)
         /\ Char(p, i) = "_" \/ ToLower(Char(p, i)) = ToLower(Char(s, j))
         /\ LikeFrom(p, i + 1, s, j + 1)

\* SQLite  s LIKE p : % matches any run of characters, _ any one character,
\* and ASCII letters match without regard to case
Like(s, p) == LikeFrom(p, 1, s, 1)

\* f"%{query}%"
SearchPattern(query) == "%" \o query \o "%"

\* q occurs in s as a substring
Contains(s, q) == \E i \in 1..(Len(s) - Len(q) + 1) : SubSeq(s, i, i + Len(q) - 1) = q

\* q occurs in s as a substring when ASCII letter case is ignored and each "_"
\* of q stands for any one character (q has no "%")
ContainsFolded(s, q) ==
    \E i \in 1..(Len(s) - Len(q) + 1) :
        \A k \in 1..Len(q) :
            Char(q, k) = "_" \/ ToLower(Char(q, k)) = ToLower(Char(s, i + k - 1))

VARIABLES
    now,    \* the wall clock, in seconds
    db,     \* the committed contents of the database file
    conn,   \* per handler: its call of process_extracted_text and its connection
    calls,  \* the number of calls of process_extracted_text so far
    log,    \* history: the text and record of each call that returned True, in commit order
    ret,    \* the response a handler has just returned, until the client takes it
    memo,   \* the pure functions of the model tabulated once (never changes)
    jobs,   \* the processing_jobs table: per job id its row, if any
    tasks,  \* per job id: the Celery task enqueued under that id and its position
    lab_notes  \* the lab_notes table: the job ids whose task committed a LabNote row

vars == <<now, db, conn, calls, log, ret, memo, jobs, tasks, lab_notes>>

\* the state of the asynchronous jobs
jobvars == <<jobs, tasks, lab_notes>>

\* the number of job ids (uuid4 values) the start endpoints can draw
MaxJobs == 1

JobIds == 1..MaxJobs

\* no row of processing_jobs under a job id; no task enqueued under it
NoJob == <<>>

NoTask == <<>>

\* the tables before any start endpoint has been called
JobsIdle ==
    /\ jobs = [j \in JobIds |-> NoJob]
    /\ tasks = [j \in JobIds |-> NoTask]
    /\ lab_notes = {}

\* parse_text_to_json of every text at every clock reading
ParseTable == [t \in Texts, c \in 0..MaxClock |-> parse_text_to_json(t, c)] @@ <<>>

\* the strings a stored column can hold, and the strings a query can carry
StoredStrings(parsed) ==
    UNION {{d.experiment_id, d.title, d.researcher, d.methods, d.results, d.observations,
            d.raw_text} \cup {d.measurements[i].type : i \in 1..Len(d.measurements)}
           : d \in parsed}
QueryStrings ==
    Queries \cup {f[1][1] : f \in {g \in Filters : g[1] # None}}
            \cup {Strip(r[1]) : r \in SuggestionRequests}

LikeTable(S) == [s \in S, q \in QueryStrings |-> Like(s, SearchPattern(q))] @@ <<>>
ContainsTable(S) == [s \in S, q \in QueryStrings |-> Contains(s, q)] @@ <<>>
FoldedTable(S) == [s \in S, q \in QueryStrings |-> ContainsFolded(s, q)] @@ <<>>

\* the tables of memo
Tables(parse, S) ==
    [parse |-> parse, like |-> LikeTable(S), contains |-> ContainsTable(S),
     folded |-> FoldedTable(S)]

NoResponse == [op |-> "none"]

\* create_database: the three empty tables, and sqlite_sequence
EmptyDb ==
    [experiments |-> {}, experiment_sections |-> {}, measurements |-> {},
     sqlite_sequence |-> [experiments |-> 0, experiment_sections |-> 0, measurements |-> 0]]

\* encrypt_lab_record(data.copy()) with encryption disabled: the pass is a
\* no-op, the record comes back without '_encrypted'
encrypt_lab_record(data) == data

\* the row written for a record: "if encrypted_data.get('_encrypted')" chooses
\* the encrypted columns, else the original data are stored
ExperimentRow(d, data, ts) ==
    LET encrypted_data == encrypt_lab_record(data)
        encrypted == "_encrypted" \in DOMAIN encrypted_data
    IN  [id |-> d.sqlite_sequence.experiments + 1,
         experiment_id |-> data.experiment_id,
         date |-> data.date,
         researcher |-> IF encrypted THEN encrypted_data.researcher_encrypted
                        ELSE data.researcher,
         title |-> data.title,
         methods |-> IF encrypted THEN encrypted_data.methods_encrypted ELSE data.methods,
         results |-> IF encrypted THEN encrypted_data.results_encrypted ELSE data.results,
         observations |-> IF encrypted THEN encrypted_data.observations_encrypted
                          ELSE data.observations,
         raw_text |-> IF encrypted THEN encrypted_data.raw_text_encrypted ELSE data.raw_text,
         encryption_metadata |-> IF encrypted THEN "{\"encrypted\": true, \"version\": \"1.0\"}"
                                 ELSE "{\"encrypted\": false}",
         created_at |-> ts,
         updated_at |-> ts]

\* variant: a plain INSERT on a table without the UNIQUE constraint, which
\* keeps the row already stored
InsertKeepingOldRow(d, data, ts) ==
    [d EXCEPT !.experiments = @ \cup {ExperimentRow(d, data, ts)},
              !.sqlite_sequence.experiments = @ + 1]

\* variant: the replaced row takes its sections and measurements with it
\* (ON DELETE CASCADE)
InsertOrReplaceCascading(d, data, ts) ==
    [d EXCEPT !.experiments =
                  {r \in @ : r.experiment_id # data.experiment_id}
                      \cup {ExperimentRow(d, data, ts)},
              !.experiment_sections = {r \in @ : r.experiment_id # data.experiment_id},
              !.measurements = {r \in @ : r.experiment_id # data.experiment_id},
              !.sqlite_sequence.experiments = @ + 1]

\* variant: title and researcher bound to each other's column
InsertWithColumnsSwapped(d, data, ts) ==
    [d EXCEPT !.experiments =
                  {r \in @ : r.experiment_id # data.experiment_id}
                      \cup {[ExperimentRow(d, data, ts) EXCEPT !.title = data.researcher,
                                                              !.researcher = data.title]},
              !.sqlite_sequence.experiments = @ + 1]

\* variant: ON CONFLICT(experiment_id) DO UPDATE, the row stored already keeps
\* its id and its created_at
InsertOrUpdateKeepingCreation(d, data, ts) ==
    [d EXCEPT !.experiments =
                  {r \in @ : r.experiment_id # data.experiment_id}
                      \cup {IF \E r \in d.experiments : r.experiment_id = data.experiment_id
                            THEN [ExperimentRow(d, data, ts) EXCEPT
                                     !.created_at =
                                         (CHOOSE r \in d.experiments :
                                              r.experiment_id = data.experiment_id).created_at]
                            ELSE ExperimentRow(d, data, ts)},
              !.sqlite_sequence.experiments = @ + 1]

\* INSERT OR REPLACE INTO experiments (...): the row with the same experiment_id
\* (UNIQUE) is deleted, the new row takes a fresh AUTOINCREMENT id and the
\* DEFAULT CURRENT_TIMESTAMP of created_at
InsertOrReplaceExperiment(d, data, ts) ==
    [d EXCEPT !.experiments =
                  {r \in @ : r.experiment_id # data.experiment_id}
                      \cup {ExperimentRow(d, data, ts)},
              !.sqlite_sequence.experiments = @ + 1]

\* INSERT INTO experiment_sections (experiment_id, section_type, section_content)
InsertSectionRow(d, experiment_id, section_type, content, ts) ==
    [d EXCEPT !.experiment_sections = @ \cup
                  {[id |-> d.sqlite_sequence.experiment_sections + 1,
                    experiment_id |-> experiment_id,
                    section_type |-> section_type,
                    section_content |-> content,
                    created_at |-> ts]},
              !.sqlite_sequence.experiment_sections = @ + 1]

\* variant: experiment_id and measurement_type bound to each other's column
InsertMeasurementRowSwapped(d, experiment_id, measurement, ts) ==
    [d EXCEPT !.measurements = @ \cup
                  {[id |-> d.sqlite_sequence.measurements + 1,
                    experiment_id |-> measurement.type,
                    measurement_type |-> experiment_id,
                    value |-> PyStr(measurement.value),
                    unit |-> measurement.unit,
                    created_at |-> ts]},
              !.sqlite_sequence.measurements = @ + 1]

\* INSERT INTO measurements (experiment_id, measurement_type, value, unit)
InsertMeasurementRow(d, experiment_id, measurement, ts) ==
    [d EXCEPT !.measurements = @ \cup
                  {[id |-> d.sqlite_sequence.measurements + 1,
                    experiment_id |-> experiment_id,
                    measurement_type |-> measurement.type,
                    value |-> PyStr(measurement.value),
                    unit |-> measurement.unit,
                    created_at |-> ts]},
              !.sqlite_sequence.measurements = @ + 1]

\* the sections store_in_database writes, in the order of data["sections"].items():
\* "if content.strip()"
SectionsToStore(data) ==
    SelectSeq(SectionNames, LAMBDA n : Strip(data.sections[n]) # "")

\* a handler with no call in progress
Idle == [pc |-> "idle", text |-> None, data |-> None, in_txn |-> FALSE, txn |-> EmptyDb, k |-> 0]

\* audit_log(event, ...): the event is recorded with the response
audit_log(response, event) == [response EXCEPT !.audit = event]

\* what process_extracted_text hands back: stored_successfully, and for the
\* history the number k of row writes the call executed after the first and
\* whether the call changed the committed database (dirty)
Response(c, success, dirty) ==
    [op |-> "process_extracted_text", experiment_id |-> c.data[1].experiment_id,
     stored_successfully |-> success, wrote |-> c.in_txn, k |-> c.k, dirty |-> dirty,
     audit |-> ""]

\* variant: a database file without a write lock
NoWriteLock == {}

\* the connection that holds the write lock of the database file, if any
Writers == {p \in Procs : conn[p].in_txn}

Init ==
    /\ now = 0
    /\ db = EmptyDb
    /\ conn = [p \in Procs |-> Idle]
    /\ calls = 0
    /\ log = <<>>
    /\ ret = NoResponse
    /\ JobsIdle
    /\ \E parse \in {ParseTable} :
           \E S \in {StoredStrings({parse[x] : x \in DOMAIN parse})} :
               memo = Tables(parse, S)

\* a second passes
Tick ==
    /\ ret = NoResponse
    /\ now < MaxClock
    /\ now' = now + 1
    /\ UNCHANGED <<db, conn, calls, log, ret, memo, jobvars>>

\* requests go to the first free handler
Earlier(q, p) == q = "w1" /\ p = "w2"

\* process_extracted_text up to sqlite3.connect: the text is parsed and the
\* connection opened
ProcessText(p, text) ==
    /\ ret = NoResponse
    /\ conn[p].pc = "idle"
    /\ \A q \in Procs : Earlier(q, p) => conn[q].pc # "idle"
    /\ calls < MaxCalls
    /\ calls' = calls + 1
    /\ conn' = [conn EXCEPT ![p] =
                   [Idle EXCEPT !.pc = "insert_experiment",
                                !.text = Some(text),
                                !.data = Some(memo.parse[text, now])]]
    /\ UNCHANGED <<now, db, log, ret, memo, jobvars>>

\* cursor.execute(INSERT OR REPLACE INTO experiments ...): the first write begins
\* the transaction and takes the write lock, which no other connection may hold
InsertExperiment(p) ==
    /\ ret = NoResponse
    /\ conn[p].pc = "insert_experiment"
    /\ Writers = {}
    /\ conn' = [conn EXCEPT ![p].in_txn = TRUE,
                            ![p].txn = InsertOrReplaceExperiment(db, conn[p].data[1], now),
                            ![p].k = 0,
                            ![p].pc = "insert_sections"]
    /\ UNCHANGED <<now, db, calls, log, ret, memo, jobvars>>

\* one cursor.execute(INSERT INTO experiment_sections ...) of the loop
InsertSection(p) ==
    LET data == conn[p].data[1]
        todo == SectionsToStore(data)
    IN  /\ ret = NoResponse
        /\ conn[p].pc = "insert_sections"
        /\ conn[p].k < Len(todo)
        /\ conn' = [conn EXCEPT
                       ![p].txn = InsertSectionRow(@, data.experiment_id, todo[conn[p].k + 1],
                                                   data.sections[todo[conn[p].k + 1]], now),
                       ![p].k = @ + 1]
        /\ UNCHANGED <<now, db, calls, log, ret, memo, jobvars>>

\* one cursor.execute(INSERT INTO measurements ...) of the loop
InsertMeasurement(p) ==
    LET data == conn[p].data[1]
        done == conn[p].k - Len(SectionsToStore(data))
    IN  /\ ret = NoResponse
        /\ conn[p].pc = "insert_sections"
        /\ done >= 0
        /\ done < Len(data.measurements)
        /\ conn' = [conn EXCEPT
                       ![p].txn = InsertMeasurementRow(@, data.experiment_id,
                                                       data.measurements[done + 1], now),
                       ![p].k = @ + 1]
        /\ UNCHANGED <<now, db, calls, log, ret, memo, jobvars>>

\* conn.commit(), conn.close(), audit_log, return True
Commit(p) ==
    LET data == conn[p].data[1]
    IN  /\ ret = NoResponse
        /\ conn[p].pc = "insert_sections"
        /\ conn[p].k = Len(SectionsToStore(data)) + Len(data.measurements)
        /\ db' = conn[p].txn
        /\ log' = Append(log, [text |-> conn[p].text[1], data |-> data])
        /\ ret' = audit_log(Response(conn[p], TRUE, db' # db), "lab_record_stored")
        /\ conn' = [conn EXCEPT ![p] = Idle]
        /\ UNCHANGED <<now, calls, memo, jobvars>>

\* variant: a connection that commits what it has written when it is dropped
DropConnectionCommitting(d, c) == IF c.in_txn THEN c.txn ELSE d

\* the committed contents once a connection that was never committed is
\* finalised: its open transaction is rolled back
DropConnection(d, c) == d

\* the except branch: a storage call raised (I/O error, constraint violation,
\* "database is locked" after the busy timeout); the handler logs and returns
\* False.  The branch does not close conn: a connection that had begun its
\* transaction stays open, holding the write lock, until it is finalised
Fail(p) ==
    /\ ret = NoResponse
    /\ conn[p].pc \in {"insert_experiment", "insert_sections"}
    /\ ret' = audit_log(Response(conn[p], FALSE, FALSE), "lab_record_store_failed")
    /\ conn' = [conn EXCEPT ![p] = IF conn[p].in_txn THEN [@ EXCEPT !.pc = "leaked"]
                                    ELSE Idle]
    /\ UNCHANGED <<now, db, calls, log, memo, jobvars>>

\* the connection left open by a failed call is finalised (at once where the
\* runtime frees it by reference count, at some later collection where it
\* sits in a reference cycle): rollback, and the write lock is released
Finalize(p) ==
    /\ ret = NoResponse
    /\ conn[p].pc = "leaked"
    /\ db' = DropConnection(db, conn[p])
    /\ conn' = [conn EXCEPT ![p] = Idle]
    /\ UNCHANGED <<now, calls, log, ret, memo, jobvars>>

\* the client takes the response
Deliver ==
    /\ ret # NoResponse
    /\ ret' = NoResponse
    /\ UNCHANGED <<now, db, conn, calls, log, memo, jobvars>>

-----------------------------------------------------------------------------
(* The query handlers.  Each opens its own connection and runs one SELECT, *)
(* which reads the committed contents of the file.                         *)

Min(a, b) == IF a <= b THEN a ELSE b

\* LIMIT n: a negative n is no limit
Limit(rows, n) == IF n < 0 THEN rows ELSE SubSeq(rows, 1, Min(n, Len(rows)))

\* the orders in which the rows of S can come out of ORDER BY ... DESC, where
\* <<a, b>> \in above says a's sort key is greater than b's; rows with equal
\* keys come out in an order SQL does not specify
Orderings(S, above) ==
    {f \in [1..Cardinality(S) -> S] :
        /\ \A i, j \in 1..Cardinality(S) : i # j => f[i] # f[j]
        /\ \A i, j \in 1..Cardinality(S) : i < j => <<f[j], f[i]>> \notin above}

\* column LIKE '%query%' on a stored value
Matches(value, query) == memo.like[value, query]

\* variant: every matching column counts 1
relevance_score_unweighted(r, query) ==
    Cardinality({f \in {"experiment_id", "title", "researcher", "methods", "results",
                        "observations", "raw_text"} : Matches(r[f], query)})

\* the CASE WHEN ... sum of search_experiments
relevance_score(r, query) ==
    (IF Matches(r.experiment_id, query) THEN 10 ELSE 0)
    + (IF Matches(r.title, query) THEN 8 ELSE 0)
    + (IF Matches(r.researcher, query) THEN 6 ELSE 0)
    + (IF Matches(r.methods, query) THEN 4 ELSE 0)
    + (IF Matches(r.results, query) THEN 4 ELSE 0)
    + (IF Matches(r.observations, query) THEN 3 ELSE 0)
    + (IF Matches(r.raw_text, query) THEN 1 ELSE 0)

\* variant: a WHERE clause that leaves raw_text out
SearchWhereStructured(r, query) ==
    \/ Matches(r.experiment_id, query)
    \/ Matches(r.title, query)
    \/ Matches(r.researcher, query)
    \/ Matches(r.methods, query)
    \/ Matches(r.results, query)
    \/ Matches(r.observations, query)

\* the WHERE clause of search_experiments
SearchWhere(r, query) ==
    \/ Matches(r.experiment_id, query)
    \/ Matches(r.title, query)
    \/ Matches(r.researcher, query)
    \/ Matches(r.methods, query)
    \/ Matches(r.results, query)
    \/ Matches(r.observations, query)
    \/ Matches(r.raw_text, query)

\* the SELECT list of search_experiments
SearchRow(r, query) ==
    [experiment_id |-> r.experiment_id, date |-> r.date, researcher |-> r.researcher,
     title |-> r.title, methods |-> r.methods, results |-> r.results,
     observations |-> r.observations, raw_text |-> r.raw_text, created_at |-> r.created_at,
     relevance_score |-> relevance_score(r, query)]

\* variant: ORDER BY created_at DESC alone
SearchAboveByDate(a, b) == a.created_at > b.created_at

\* ORDER BY relevance_score DESC, created_at DESC
SearchAbove(a, b) ==
    \/ a.relevance_score > b.relevance_score
    \/ a.relevance_score = b.relevance_score /\ a.created_at > b.created_at

\* the row lists search_experiments(query, limit) can return
\* (two rows of experiments differ in experiment_id, so no two selected rows
\* are equal)
search_experiments(d, query, limit) ==
    LET selected == {SearchRow(r, query) : r \in {x \in d.experiments : SearchWhere(x, query)}}
    IN  {Limit(f, limit) : f \in Orderings(selected, {x \in selected \X selected : SearchAbove(x[1], x[2])})}

\* variant: WHERE experiment_id = ? COLLATE NOCASE
get_experiment_nocase(d, experiment_id) ==
    LET same(a, b) == /\ Len(a) = Len(b)
                      /\ \A k \in 1..Len(a) : ToLower(Char(a, k)) = ToLower(Char(b, k))
        found == {r \in d.experiments : same(r.experiment_id, experiment_id)}
    IN  IF found = {} THEN {None}
        ELSE {Some([id |-> r.id, experiment_id |-> r.experiment_id, date |-> r.date,
                    researcher |-> r.researcher, title |-> r.title, methods |-> r.methods,
                    results |-> r.results, observations |-> r.observations,
                    raw_text |-> r.raw_text, created_at |-> r.created_at,
                    updated_at |-> r.updated_at]) : r \in found}

\* the record get_experiment(experiment_id) can return, None when no row has
\* that experiment_id: the columns of the row without encryption_metadata
\* (the metadata says 'encrypted': false, so nothing is decrypted)
get_experiment(d, experiment_id) ==
    LET found == {r \in d.experiments : r.experiment_id = experiment_id}
    IN  IF found = {} THEN {None}
        ELSE {Some([id |-> r.id, experiment_id |-> r.experiment_id, date |-> r.date,
                    researcher |-> r.researcher, title |-> r.title, methods |-> r.methods,
                    results |-> r.results, observations |-> r.observations,
                    raw_text |-> r.raw_text, created_at |-> r.created_at,
                    updated_at |-> r.updated_at]) : r \in found}

\* variant: ORDER BY created_at ASC
ListAboveOldestFirst(a, b) == a.created_at < b.created_at

\* ORDER BY created_at DESC
ListAbove(a, b) == a.created_at > b.created_at

\* the row lists list_experiments(limit) can return
list_experiments(d, limit) ==
    LET selected == {[id |-> r.id, experiment_id |-> r.experiment_id, date |-> r.date,
                      researcher |-> r.researcher, title |-> r.title,
                      created_at |-> r.created_at] : r \in d.experiments}
        ordered == Orderings(selected, {x \in selected \X selected : ListAbove(x[1], x[2])})
    IN  {Limit([i \in DOMAIN f |->
                   [experiment_id |-> f[i].experiment_id, date |-> f[i].date,
                    researcher |-> f[i].researcher, title |-> f[i].title,
                    created_at |-> f[i].created_at]], limit) : f \in ordered}

\* variant: a range that excludes its end points
MeasurementWhereExclusive(m, measurement_type, min_value, max_value) ==
    /\ (measurement_type # None /\ measurement_type[1] # "")
           => Matches(m.measurement_type, measurement_type[1])
    /\ min_value # None => SqlCastReal(m.value) > min_value[1]
    /\ max_value # None => SqlCastReal(m.value) < max_value[1]

\* the WHERE clause search_measurements builds from its arguments
MeasurementWhere(m, measurement_type, min_value, max_value) ==
    /\ (measurement_type # None /\ measurement_type[1] # "")
           => Matches(m.measurement_type, measurement_type[1])
    /\ min_value # None => SqlCastReal(m.value) >= min_value[1]
    /\ max_value # None => SqlCastReal(m.value) <= max_value[1]

\* FROM measurements m JOIN experiments e ON m.experiment_id = e.experiment_id
Joined(d) ==
    {x \in [m : d.measurements, e : d.experiments] : x.m.experiment_id = x.e.experiment_id}

\* ORDER BY m.created_at DESC
MeasurementAbove(a, b) == a.m.created_at > b.m.created_at

\* the SELECT list of search_measurements
MeasurementRow(x) ==
    [experiment_id |-> x.m.experiment_id, measurement_type |-> x.m.measurement_type,
     value |-> x.m.value, unit |-> x.m.unit, timestamp |-> None, title |-> x.e.title,
     researcher |-> x.e.researcher, date |-> x.e.date, created_at |-> x.m.created_at]

\* the row lists search_measurements(...) can return
search_measurements(d, measurement_type, min_value, max_value, limit) ==
    LET selected == {x \in Joined(d) :
                        MeasurementWhere(x.m, measurement_type, min_value, max_value)}
    IN  {Limit([i \in DOMAIN f |-> MeasurementRow(f[i])], limit)
            : f \in Orderings(selected,
                               {x \in selected \X selected : MeasurementAbove(x[1], x[2])})}

\* the byte of an ASCII character, for the BINARY collation of ORDER BY (the
\* grave accent, 96, has no string literal and occurs in no text of the model;
\* every other character is taken as beyond ASCII)
AsciiPunct == "#$%&'("
AsciiLow == ")*+,-./0123456789:;<=>?@ABCDEFGHIJKLMNOPQRSTUVWXYZ["
AsciiMid == "]^_"
AsciiHigh == "abcdefghijklmnopqrstuvwxyz{|}~"
Ord(c) ==
    IF c \in CharsOf(AsciiPunct) THEN 34 + IndexIn(c, AsciiPunct)
    ELSE IF c \in CharsOf(AsciiLow) THEN 40 + IndexIn(c, AsciiLow)
    ELSE IF c \in CharsOf(AsciiMid) THEN 92 + IndexIn(c, AsciiMid)
    ELSE IF c \in CharsOf(AsciiHigh) THEN 96 + IndexIn(c, AsciiHigh)
    ELSE IF c = "\t" THEN 9
    ELSE IF c = "\n" THEN 10
    ELSE IF c = "\r" THEN 13
    ELSE IF c = " " THEN 32
    ELSE IF c = "!" THEN 33
    ELSE IF c = "\"" THEN 34
    ELSE IF c = "\\" THEN 92
    ELSE 128

RECURSIVE StrLess(_, _)
\* a < b for TEXT values (memcmp, the shorter first when one is a prefix)
StrLess(a, b) ==
    IF Len(b) = 0 THEN FALSE
    ELSE IF Len(a) = 0 THEN TRUE
    ELSE IF Char(a, 1) = Char(b, 1) THEN StrLess(SubSeq(a, 2, Len(a)), SubSeq(b, 2, Len(b)))
    ELSE Ord(Char(a, 1)) < Ord(Char(b, 1))

\* SELECT DISTINCT column ... WHERE column LIKE ? ... ORDER BY column LIMIT ?
\* over the values of the column that pass the rest of the WHERE clause
DistinctLike(values, partial_query, limit) ==
    LET selected == {v \in values : Matches(v, partial_query)}
    IN  Limit(CHOOSE f \in Orderings(selected,
                                     {x \in selected \X selected : StrLess(x[1], x[2])}) : TRUE,
              limit)

NoSuggestions ==
    [experiment_ids |-> <<>>, researchers |-> <<>>, titles |-> <<>>,
     measurement_types |-> <<>>]

\* get_search_suggestions(partial_query, limit): the four lookups
get_search_suggestions(d, partial_query, limit) ==
    [experiment_ids |->
         DistinctLike({r.experiment_id : r \in d.experiments}, partial_query, limit),
     researchers |->
         DistinctLike({r.researcher : r \in d.experiments} \ {""}, partial_query, limit),
     titles |->
         DistinctLike({r.title : r \in d.experiments} \ {""}, partial_query, limit),
     measurement_types |->
         DistinctLike({m.measurement_type : m \in d.measurements}, partial_query, limit)]

\* variant: only the empty query is turned away
TooShortWhenEmpty(partial_query) == Len(partial_query) < 1

\* "if len(partial_query) < 2"
TooShort(partial_query) == Len(partial_query) < 2

\* search_suggestions_endpoint: q is stripped, a query shorter than 2
\* characters is answered with four empty lists, any other is handed to
\* get_search_suggestions
search_suggestions_endpoint(d, q, limit) ==
    LET partial_query == Strip(q)
    IN  IF TooShort(partial_query)
        THEN [success |-> TRUE, suggestions |-> NoSuggestions, query |-> None]
        ELSE [success |-> TRUE,
              suggestions |-> get_search_suggestions(d, partial_query, limit),
              query |-> Some(partial_query)]

GetExperiment(experiment_id) ==
    /\ ret = NoResponse
    /\ \E record \in get_experiment(db, experiment_id) :
           ret' = [op |-> "get_experiment", experiment_id |-> experiment_id,
                   record |-> record]
    /\ UNCHANGED <<now, db, conn, calls, log, memo, jobvars>>

ListExperiments(limit) ==
    /\ ret = NoResponse
    /\ \E rows \in list_experiments(db, limit) :
           ret' = [op |-> "list_experiments", limit |-> limit, rows |-> rows]
    /\ UNCHANGED <<now, db, conn, calls, log, memo, jobvars>>

SearchExperiments(query, limit) ==
    /\ ret = NoResponse
    /\ \E rows \in search_experiments(db, query, limit) :
           ret' = [op |-> "search_experiments", query |-> query, limit |-> limit,
                   rows |-> rows]
    /\ UNCHANGED <<now, db, conn, calls, log, memo, jobvars>>

SearchMeasurements(measurement_type, min_value, max_value, limit) ==
    /\ ret = NoResponse
    /\ \E rows \in search_measurements(db, measurement_type, min_value, max_value, limit) :
           ret' = [op |-> "search_measurements", measurement_type |-> measurement_type,
                   min_value |-> min_value, max_value |-> max_value, limit |-> limit,
                   rows |-> rows]
    /\ UNCHANGED <<now, db, conn, calls, log, memo, jobvars>>

SearchSuggestions(q, limit) ==
    /\ ret = NoResponse
    /\ ret' = [op |-> "search_suggestions", q |-> q, limit |-> limit,
               response |-> search_suggestions_endpoint(db, q, limit)]
    /\ UNCHANGED <<now, db, conn, calls, log, memo, jobvars>>

Next ==
    \/ Tick
    \/ \E p \in Procs, text \in Texts : ProcessText(p, text)
    \/ \E p \in Procs : InsertExperiment(p)
    \/ \E p \in Procs : InsertSection(p)
    \/ \E p \in Procs : InsertMeasurement(p)
    \/ \E p \in Procs : Commit(p)
    \/ \E p \in Procs : Fail(p)
    \/ \E p \in Procs : Finalize(p)
    \/ \E experiment_id \in GetIds : GetExperiment(experiment_id)
    \/ \E limit \in Limits : ListExperiments(limit)
    \/ \E r \in SearchRequests : SearchExperiments(r[1], r[2])
    \/ \E r \in MeasurementRequests : SearchMeasurements(r[1][1], r[1][2], r[1][3], r[2])
    \/ \E r \in SuggestionRequests : SearchSuggestions(r[1], r[2])
    \/ Deliver

Spec == Init /\ [][Next]_vars

-----------------------------------------------------------------------------
(* The extractors on their own: parse_text_to_json, _extract_sections and  *)
(* _extract_measurements applied to texts put together from a few lines    *)
(* and words.  The store plays no part and stays empty.                    *)

\* bounds of the texts
MaxFieldLines == 2
MaxSectionLines == 4
MaxWords == 2

\* the sequences of at most n elements of S
SeqsUpTo(S, n) == UNION {[1..k -> S] : k \in 0..n}

RECURSIVE JoinWords(_)
\* ' '.join(words)
JoinWords(words) ==
    IF Len(words) = 0 THEN ""
    ELSE IF Len(words) = 1 THEN words[1]
    ELSE words[1] \o " " \o JoinWords(Tail(words))

\* lines with field labels, a header, whitespace around a body line, a blank line
FieldLines ==
    {"Experiment ID: EXP-1", "Exp ID: EXP-2", "3/4/24", "Date: 2024-01-05", "Methods:",
     " heat 50C ", ""}
FieldTexts == {JoinLines(ls) : ls \in SeqsUpTo(FieldLines, MaxFieldLines)}

\* header lines, with and without text after the header, and body lines
SectionLines == {"Methods:", "Results", "Methods: mix", " heat 50C ", ""}
SectionTexts == {JoinLines(ls) : ls \in SeqsUpTo(SectionLines, MaxSectionLines)}

\* header lines of keywords that two sections share or that look alike, each
\* with one body line under it
KeywordLines == {"Procedure:", "procedures", "Steps:", "Process", "Protocol:", "Data"}
KeywordTexts == {JoinLines(<<h, "did it">>) : h \in KeywordLines}

\* quantities with their units
MeasurementWords ==
    {"50°C", "50C", "25C", "pH 7.4", "10ml", "5g", "30min", "2hr", "0.1M", "5%"}
MeasurementTexts ==
    {JoinWords(ws) : ws \in SeqsUpTo(MeasurementWords, MaxWords)}
        \cup {"Heated to 50°C for 30min at pH 7.4"}

\* the sections, by their place in the declaration, that have a keyword whose
\* header pattern matches the line
SectionsMatching(line) ==
    {n \in 1..Len(SectionNames) :
        \E k \in 1..Len(section_keywords[SectionNames[n]]) :
            ReMatch(HeaderPattern(section_keywords[SectionNames[n]][k]), line, FALSE).found}

\* the lines of those texts, each trimmed, with the header found on it and
\* with the sections it matches
ExtractLines == SectionLines \cup KeywordLines \cup {"did it"}

MarkTable ==
    [l \in ExtractLines |->
        [line |-> Strip(l),
         header |-> FindHeader(KeywordsFrom(section_keywords, 1), Strip(l)),
         matching |-> SectionsMatching(Strip(l))]] @@ <<>>

ExtractInit ==
    /\ now = 0
    /\ db = EmptyDb
    /\ conn = [p \in Procs |-> Idle]
    /\ calls = 0
    /\ log = <<>>
    /\ ret = NoResponse
    /\ memo = MarkTable
    /\ JobsIdle

ParseTextToJson(text) ==
    /\ ret = NoResponse
    /\ ret' = [op |-> "parse_text_to_json", text |-> text,
               data |-> parse_text_to_json(text, now)]
    /\ UNCHANGED <<now, db, conn, calls, log, memo, jobvars>>

ExtractSections(text) ==
    /\ ret = NoResponse
    /\ ret' = [op |-> "_extract_sections", text |-> text,
               sections |-> _extract_sections(text)]
    /\ UNCHANGED <<now, db, conn, calls, log, memo, jobvars>>

ExtractMeasurements(text) ==
    /\ ret = NoResponse
    /\ ret' = [op |-> "_extract_measurements", text |-> text,
               measurements |-> _extract_measurements(text)]
    /\ UNCHANGED <<now, db, conn, calls, log, memo, jobvars>>

ExtractNext ==
    \/ Tick
    \/ \E text \in FieldTexts : ParseTextToJson(text)
    \/ \E text \in SectionTexts \cup KeywordTexts : ExtractSections(text)
    \/ \E text \in MeasurementTexts : ExtractMeasurements(text)
    \/ Deliver

ExtractSpec == ExtractInit /\ [][ExtractNext]_vars

-----------------------------------------------------------------------------
(* One handler working on a database file that may hold a record from an   *)
(* earlier run: create_database keeps the tables it finds.  No storage     *)
(* call fails here.                                                        *)

\* the record the file may hold already, and the texts handed in
StoredText == "ID: A1\nTitle: Heat\nboil 25C"
HistoryTexts ==
    {"ID: A1\nTitle: cool\nMethods:\nheat 50C",
     " ID: B2\nwe heat pH 7\n",
     "heat it",
     "Title: warm\nstir it"}

HistoryParseTable ==
    [t \in HistoryTexts \cup {StoredText}, c \in 0..MaxClock |-> parse_text_to_json(t, c)] @@ <<>>

RECURSIVE InsertSectionRows(_, _, _, _)
\* the loop over data["sections"].items(), from the k-th section to store
InsertSectionRows(d, data, k, ts) ==
    IF k > Len(SectionsToStore(data)) THEN d
    ELSE InsertSectionRows(InsertSectionRow(d, data.experiment_id, SectionsToStore(data)[k],
                                            data.sections[SectionsToStore(data)[k]], ts),
                           data, k + 1, ts)

RECURSIVE InsertMeasurementRows(_, _, _, _)
\* the loop over data["measurements"], from the k-th measurement
InsertMeasurementRows(d, data, k, ts) ==
    IF k > Len(data.measurements) THEN d
    ELSE InsertMeasurementRows(InsertMeasurementRow(d, data.experiment_id,
                                                    data.measurements[k], ts),
                               data, k + 1, ts)

\* the database after a store_in_database call that ran to its commit
store_in_database(d, data, ts) ==
    InsertMeasurementRows(InsertSectionRows(InsertOrReplaceExperiment(d, data, ts), data, 1, ts),
                          data, 1, ts)

\* the upserts an earlier run committed, at clock reading 0
Histories == {<<>>, <<StoredText>>}

HistoryInit ==
    /\ now = 0
    /\ conn = [p \in Procs |-> Idle]
    /\ calls = 0
    /\ ret = NoResponse
    /\ JobsIdle
    /\ \E parse \in {HistoryParseTable} :
           /\ \E S \in {StoredStrings({parse[x] : x \in DOMAIN parse})} :
                  memo = Tables(parse, S)
           /\ \E held \in Histories :
                  /\ log = [i \in 1..Len(held) |->
                               [text |-> held[i], data |-> parse[held[i], 0]]]
                  /\ db = IF held = <<>> THEN EmptyDb
                          ELSE store_in_database(EmptyDb, parse[held[1], 0], 0)

HistoryNext ==
    \/ Tick
    \/ \E text \in HistoryTexts : ProcessText("w1", text)
    \/ InsertExperiment("w1")
    \/ InsertSection("w1")
    \/ InsertMeasurement("w1")
    \/ Commit("w1")
    \/ ListExperiments(DefaultLimit)
    \/ SearchExperiments("heat", DefaultLimit)
    \/ Deliver

HistorySpec == HistoryInit /\ [][HistoryNext]_vars

-----------------------------------------------------------------------------
(* The asynchronous jobs.  A start endpoint stores a ProcessingJob row and  *)
(* enqueues a Celery task under the row's id; the task reports its progress *)
(* through update_job_progress, every call of which commits on its own and  *)
(* swallows whatever it raises.  A value that can be None is None or <<v>>. *)

DemoKey == "demo-key-for-testing"

\* a row of processing_jobs as the endpoints create it: the column defaults
ProcessingJob(job_type) ==
    [job_type |-> job_type, status |-> "pending", progress |-> 0,
     result |-> None, error_message |-> None,
     started_at |-> None, completed_at |-> None]

\* Python's truth value of a status or a message: neither None nor the empty
\* string (a result is a dict with keys, so it is true unless it is None)
Truthy(x) == x # None /\ x # <<"">>

\* variant: a failure that resets neither the progress nor the result
update_job_progress_keeping(job, progress, status, result, error_message, ts) ==
    IF job = NoJob THEN job
    ELSE [job EXCEPT
            !.progress = IF status = <<"failed">> THEN @ ELSE progress,
            !.status = IF Truthy(status) THEN status[1] ELSE @,
            !.result = IF result # None THEN result ELSE @,
            !.error_message = IF Truthy(error_message) THEN error_message ELSE @,
            !.started_at = IF status = <<"processing">> /\ @ = None
                           THEN <<ts>> ELSE @,
            !.completed_at = IF status \in {<<"completed">>, <<"failed">>}
                             THEN <<ts>> ELSE @]

\* update_job_progress when nothing in it raises: the row after its commit
update_job_progress(job, progress, status, result, error_message, ts) ==
    IF job = NoJob THEN job
    ELSE [job EXCEPT
            !.progress = progress,
            !.status = IF Truthy(status) THEN status[1] ELSE @,
            !.result = IF result # None THEN result ELSE @,
            !.error_message = IF Truthy(error_message) THEN error_message ELSE @,
            !.started_at = IF status = <<"processing">> /\ @ = None
                           THEN <<ts>> ELSE @,
            !.completed_at = IF status \in {<<"completed">>, <<"failed">>}
                             THEN <<ts>> ELSE @]

\* the statements of a task body, in groups that end at a commit or a raise:
\* <<"update", progress, status>> is a call of update_job_progress
Progress(n) == <<"update", n, None>>

Processing == <<"update", 10, <<"processing">>>>

Completed == <<"update", 100, <<"completed">>>>

\* statements that either go through or raise one of these exceptions (str(e))
Raising(messages) == <<"run", messages>>

\* the LabNote row: db.session.add(lab_note), db.session.commit()
AddLabNote == <<"lab_note", <<"database is locked">>>>

\* update_project_progress and update_project_future_plan: both catch every
\* exception, and neither touches a job row
UpdateProject == <<"project">>

\* result_data: lab_note.id and lab_note.title are read from an instance that
\* the commits before have expired, so each read goes to the database again
ResultData == <<"result_data", <<"Instance has been deleted">>>>

\* the body of process_image_async for an api_key and a project_id
process_image_async(api_key, project_id) ==
    <<Processing, Raising(<<"Image file not found: p">>), Progress(20)>>
    \o (IF api_key = DemoKey
        THEN <<Progress(50), Progress(70)>>
        ELSE <<Progress(30), Progress(50),
               Raising(<<"", "No choices in API response">>)>>)
    \o <<Progress(70)>>
    \o (IF project_id = None
        THEN <<Raising(<<"local variable 'user_projects' referenced before assignment">>)>>
        ELSE <<>>)
    \o <<Progress(80), AddLabNote, Progress(90), UpdateProject, ResultData,
         Completed>>

\* the body of generate_project_report_async
generate_project_report_async ==
    <<Processing, Raising(<<"Project not found">>), Progress(20),
      Raising(<<"No lab notes found for this project">>), Progress(30),
      Progress(50), Progress(70), Raising(<<"">>), Progress(90), Completed>>

\* the prefix of the message the except clause of each task stores
ErrorPrefix(job_type) ==
    IF job_type = "image_processing" THEN "Image processing failed: "
    ELSE "Report generation failed: "

\* the result_data of a task that reached its last statement
result_data(j, job_type) ==
    IF job_type = "image_processing"
    THEN [lab_note_id |-> j, title |-> "Lab Note Entry"]
    ELSE [report_content |-> "report", note_count |-> 1]

\* what the start endpoints are called with
ImageRequests == {<<DemoKey, <<"p1">>>>, <<"k", None>>}

ReportRequests == {<<"k", <<"p1">>>>}

\* the outcomes of a start endpoint after its checks: the row is committed and
\* the task enqueued; the row's commit raises; apply_async raises
StartOutcomes == {"started", "commit raised", "apply_async raised"}

\* uuid.uuid4(): an id no row has (the least one, ids being interchangeable)
FreshId(j) == jobs[j] = NoJob /\ \A k \in JobIds : k < j => jobs[k] # NoJob

\* the try block of a start endpoint
StartJob(j, job_type, api_key, project_id, outcome) ==
    /\ FreshId(j)
    /\ jobs' = IF outcome = "commit raised" THEN jobs
               ELSE [jobs EXCEPT ![j] = ProcessingJob(job_type)]
    /\ tasks' = IF outcome # "started" THEN tasks
                ELSE [tasks EXCEPT ![j] =
                        [api_key |-> api_key, project_id |-> project_id,
                         pc |-> 1, state |-> "PENDING"]]
    /\ UNCHANGED <<now, db, conn, calls, log, ret, memo, lab_notes>>

process_image_endpoint(j, api_key, project_id, outcome) ==
    StartJob(j, "image_processing", api_key, project_id, outcome)

generate_report_async_endpoint(j, api_key, project_id, outcome) ==
    StartJob(j, "report_generation", api_key, project_id, outcome)

\* api_toolbox_analysis: its row is created with status processing, and no
\* task is enqueued for it; the row's commit goes through or raises
api_toolbox_analysis(j, outcome) ==
    /\ FreshId(j)
    /\ outcome # "apply_async raised"
    /\ jobs' = IF outcome = "commit raised" THEN jobs
               ELSE [jobs EXCEPT ![j] =
                       [ProcessingJob("miseq_analysis") EXCEPT !.status = "processing"]]
    /\ UNCHANGED <<now, db, conn, calls, log, ret, memo, tasks, lab_notes>>

\* the statement group a task is at
Running(j) == tasks[j] # NoTask /\ tasks[j].state \in {"PENDING", "STARTED"}

\* the body of the task enqueued under j
Body(j) ==
    IF jobs[j].job_type = "image_processing"
    THEN process_image_async(tasks[j].api_key, tasks[j].project_id)
    ELSE generate_project_report_async

Step(j) == Body(j)[tasks[j].pc]

\* the exceptions the statement group can raise
Raises(j) == {Step(j)[2][i] : i \in 1..Len(Step(j)[2])}

\* the task goes on to its next statement group, or returns after the last
Advance(j) ==
    tasks' = [tasks EXCEPT ![j].pc = @ + 1,
                           ![j].state = IF tasks[j].pc = Len(Body(j))
                                        THEN "SUCCESS" ELSE "STARTED"]

\* a call of update_job_progress from the task body: it commits, or it raises
\* and swallows the exception, and the task goes on either way
UpdateJobProgress(j) ==
    /\ Running(j)
    /\ Step(j)[1] = "update"
    /\ \E committed \in BOOLEAN :
           jobs' = IF ~committed THEN jobs
                   ELSE [jobs EXCEPT ![j] =
                           update_job_progress(@, Step(j)[2], Step(j)[3],
                               IF Step(j)[3] = <<"completed">>
                               THEN <<result_data(j, jobs[j].job_type)>> ELSE None,
                               None, now)]
    /\ Advance(j)
    /\ UNCHANGED <<now, db, conn, calls, log, ret, memo, lab_notes>>

\* variant: an except clause that marks the job failed and lets the body go on
ExceptSwallowing(j, e) ==
    /\ \E committed \in BOOLEAN :
           jobs' = IF ~committed THEN jobs
                   ELSE [jobs EXCEPT ![j] =
                           update_job_progress(@, 0, <<"failed">>, None,
                               <<ErrorPrefix(jobs[j].job_type) \o e>>, now)]
    /\ Advance(j)

\* the except clause: update_job_progress(job_id, 0, 'failed', None, error_msg),
\* which again commits or swallows its own exception, and then raise
Except(j, e) ==
    /\ \E committed \in BOOLEAN :
           jobs' = IF ~committed THEN jobs
                   ELSE [jobs EXCEPT ![j] =
                           update_job_progress(@, 0, <<"failed">>, None,
                               <<ErrorPrefix(jobs[j].job_type) \o e>>, now)]
    /\ tasks' = [tasks EXCEPT ![j].state = "FAILURE"]

\* statements of the body that can raise
RunBody(j) ==
    /\ Running(j)
    /\ Step(j)[1] = "run"
    /\ \/ Advance(j) /\ UNCHANGED jobs
       \/ \E e \in Raises(j) : Except(j, e)
    /\ UNCHANGED <<now, db, conn, calls, log, ret, memo, lab_notes>>

\* the LabNote row is committed, or its commit raises
CommitLabNote(j) ==
    /\ Running(j)
    /\ Step(j)[1] = "lab_note"
    /\ \/ Advance(j) /\ lab_notes' = lab_notes \cup {j} /\ UNCHANGED jobs
       \/ \E e \in Raises(j) : Except(j, e) /\ UNCHANGED lab_notes
    /\ UNCHANGED <<now, db, conn, calls, log, ret, memo>>

\* the project's progress and future plan are updated, or fail quietly
UpdateProjectProgress(j) ==
    /\ Running(j)
    /\ Step(j)[1] = "project"
    /\ Advance(j)
    /\ UNCHANGED <<now, db, conn, calls, log, ret, memo, jobs, lab_notes>>

\* result_data is built, or reading the LabNote back raises
BuildResultData(j) ==
    /\ Running(j)
    /\ Step(j)[1] = "result_data"
    /\ \/ Advance(j) /\ UNCHANGED jobs
       \/ \E e \in Raises(j) : Except(j, e)
    /\ UNCHANGED <<now, db, conn, calls, log, ret, memo, lab_notes>>

\* a worker takes the next step of the task enqueued under j
TaskStep(j) ==
    \/ UpdateJobProgress(j)
    \/ RunBody(j)
    \/ CommitLabNote(j)
    \/ UpdateProjectProgress(j)
    \/ BuildResultData(j)

JobInit ==
    /\ now = 0
    /\ db = EmptyDb
    /\ conn = [p \in Procs |-> Idle]
    /\ calls = 0
    /\ log = <<>>
    /\ ret = NoResponse
    /\ memo = <<>>
    /\ JobsIdle

JobNext ==
    \/ Tick
    \/ \E j \in JobIds, r \in ImageRequests, outcome \in StartOutcomes :
           process_image_endpoint(j, r[1], r[2], outcome)
    \/ \E j \in JobIds, r \in ReportRequests, outcome \in StartOutcomes :
           generate_report_async_endpoint(j, r[1], r[2], outcome)
    \/ \E j \in JobIds, outcome \in StartOutcomes : api_toolbox_analysis(j, outcome)
    \/ \E j \in JobIds : UpdateJobProgress(j)
    \/ \E j \in JobIds : RunBody(j)
    \/ \E j \in JobIds : CommitLabNote(j)
    \/ \E j \in JobIds : UpdateProjectProgress(j)
    \/ \E j \in JobIds : BuildResultData(j)

JobSpec == JobInit /\ [][JobNext]_vars

\* a worker is running and the broker hands it every task that was enqueued;
\* every statement of a task body ends (the API calls carry timeouts)
JobFairSpec == JobSpec /\ \A j \in JobIds : WF_vars(TaskStep(j))

-----------------------------------------------------------------------------
(* Properties of the store.  A response stays in ret until Deliver, and no *)
(* other step is taken meanwhile, so in a state with a response db is the  *)
(* database the handler worked on and log the upserts that went before.    *)

\* the successful upserts of an experiment_id, as positions of the history
UpsertsOf(id) == {i \in 1..Len(log) : log[i].data.experiment_id = id}

\* the most recent of them
Latest(id) == CHOOSE i \in UpsertsOf(id) : \A j \in UpsertsOf(id) : j <= i

TopLevelFields ==
    {"experiment_id", "date", "researcher", "title", "methods", "results", "observations",
     "raw_text"}

SameTopLevel(r, d) == \A f \in TopLevelFields : r[f] = d[f]

\* C1: after any sequence of upserts the experiments table holds at most one
\* row per experiment_id (and one for every id upserted with success), and
\* that row carries the top-level fields of the most recent successful upsert
\* of that id.
C1_OneRowPerExperimentId ==
    /\ \A a, b \in db.experiments : a.experiment_id = b.experiment_id => a = b
    /\ \A i \in 1..Len(log) : \E r \in db.experiments : r.experiment_id = log[i].data.experiment_id
    /\ \A r \in db.experiments :
           /\ UpsertsOf(r.experiment_id) # {}
           /\ SameTopLevel(r, log[Latest(r.experiment_id)].data)

\* the same experiment_id upserted twice with different titles: one row, with
\* the second title
C1_Witness ==
    /\ Len(log) = 2
    /\ log[1].data.experiment_id = log[2].data.experiment_id
    /\ log[1].data.title # log[2].data.title
    /\ \E r \in db.experiments : db.experiments = {r} /\ r.title = log[2].data.title

SectionRowsOf(id) == {r \in db.experiment_sections : r.experiment_id = id}
MeasurementRowsOf(id) == {r \in db.measurements : r.experiment_id = id}

\* the sections of a parsed record that are not empty
NonEmptySections(d) == {n \in DOMAIN d.sections : d.sections[n] # ""}

\* the section rows and measurement rows the first n upserts of the history
\* wrote for an experiment_id
RECURSIVE SectionsWritten(_, _)
SectionsWritten(id, n) ==
    IF n = 0 THEN 0
    ELSE SectionsWritten(id, n - 1)
         + (IF log[n].data.experiment_id = id
            THEN Cardinality(NonEmptySections(log[n].data)) ELSE 0)

RECURSIVE MeasurementsWritten(_, _)
MeasurementsWritten(id, n) ==
    IF n = 0 THEN 0
    ELSE MeasurementsWritten(id, n - 1)
         + (IF log[n].data.experiment_id = id THEN Len(log[n].data.measurements) ELSE 0)

StoredIds ==
    {r.experiment_id : r \in db.experiments \cup db.experiment_sections \cup db.measurements}
        \cup {log[i].data.experiment_id : i \in 1..Len(log)}

SubRowsAccumulate ==
    \A id \in StoredIds :
        /\ Cardinality(SectionRowsOf(id)) = SectionsWritten(id, Len(log))
        /\ Cardinality(MeasurementRowsOf(id)) = MeasurementsWritten(id, Len(log))

NoSubRowDeleted ==
    /\ db.experiment_sections \subseteq db'.experiment_sections
    /\ db.measurements \subseteq db'.measurements

\* C2: sub-rows are append-only.  Every successful upsert adds one section row
\* per non-empty section and one measurement row per measurement of its record
\* and no step deletes a sub-row: the rows of an experiment_id number the sum
\* over its successful upserts (n*s and n*m after n upserts of one record with
\* s sections and m measurements), and the counts never decrease.
C2_SubRowsAppendOnly == [](SubRowsAccumulate) /\ [][NoSubRowDeleted]_vars

\* one record with a section and a measurement upserted twice: twice the rows
C2_Witness ==
    /\ Len(log) = 2
    /\ log[1].data = log[2].data
    /\ NonEmptySections(log[1].data) # {}
    /\ Len(log[1].data.measurements) >= 1
    /\ Cardinality(SectionRowsOf(log[1].data.experiment_id))
           = 2 * Cardinality(NonEmptySections(log[1].data))
    /\ Cardinality(MeasurementRowsOf(log[1].data.experiment_id))
           = 2 * Len(log[1].data.measurements)

SearchFields ==
    {"experiment_id", "title", "researcher", "methods", "results", "observations", "raw_text"}

Weight(f) ==
    CASE f = "experiment_id" -> 10
      [] f = "title" -> 8
      [] f = "researcher" -> 6
      [] f = "methods" -> 4
      [] f = "results" -> 4
      [] f = "observations" -> 3
      [] f = "raw_text" -> 1

RECURSIVE SumOfWeights(_)
SumOfWeights(F) ==
    IF F = {} THEN 0
    ELSE LET f == CHOOSE x \in F : TRUE IN Weight(f) + SumOfWeights(F \ {f})

\* the fields of a record that contain the query as a substring, and those
\* that contain it when letter case is ignored and "_" stands for any character
FieldsContaining(r, query) == {f \in SearchFields : memo.contains[r[f], query]}
FieldsMatching(r, query) == {f \in SearchFields : memo.folded[r[f], query]}

\* C3: the rows search returns are in descending order of relevance_score and,
\* among equal scores, in descending order of created_at; so a record that
\* matches the query in its title comes before a record that matches it in
\* raw_text only, whichever was created first.  (A field matches when it
\* contains the query, ASCII case ignored and "_" standing for any character.)
C3_SearchOrder ==
    ret.op = "search_experiments" =>
        \A i, j \in 1..Len(ret.rows) :
            i < j =>
                /\ ret.rows[i].relevance_score >= ret.rows[j].relevance_score
                /\ ret.rows[i].relevance_score = ret.rows[j].relevance_score
                       => ret.rows[i].created_at >= ret.rows[j].created_at
                /\ ~(/\ "title" \in FieldsMatching(ret.rows[j], ret.query)
                     /\ FieldsMatching(ret.rows[i], ret.query) = {"raw_text"})

\* a title match created first is returned before a later raw_text-only match
C3_Witness ==
    /\ ret.op = "search_experiments"
    /\ Len(ret.rows) = 2
    /\ "title" \in FieldsMatching(ret.rows[1], ret.query)
    /\ FieldsMatching(ret.rows[2], ret.query) = {"raw_text"}
    /\ ret.rows[1].created_at < ret.rows[2].created_at

\* C4: the relevance_score of a returned record is the sum of the weights
\* (experiment_id 10, title 8, researcher 6, methods 4, results 4,
\* observations 3, raw_text 1) over exactly the fields that match the query:
\* the fields that contain it as a substring when ASCII letter case is ignored
\* and "_" in the query stands for any one character.
C4_ScoreIsWeightedSum ==
    ret.op = "search_experiments" =>
        \A i \in 1..Len(ret.rows) :
            ret.rows[i].relevance_score = SumOfWeights(FieldsMatching(ret.rows[i], ret.query))

\* C4 as stated: the sum runs over exactly the fields that contain the query
\* as a substring.
C4_ScoreOverSubstringFields ==
    ret.op = "search_experiments" =>
        \A i \in 1..Len(ret.rows) :
            ret.rows[i].relevance_score
                = SumOfWeights(FieldsContaining(ret.rows[i], ret.query))

\* "heat" scores 9 on a record titled "Heat": title and raw_text match, and no
\* field contains "heat" in the title's case
C4_Witness ==
    /\ ret.op = "search_experiments"
    /\ ret.query = "heat"
    /\ \E i \in 1..Len(ret.rows) :
           /\ ret.rows[i].relevance_score = 9
           /\ FieldsMatching(ret.rows[i], ret.query) = {"title", "raw_text"}
           /\ "title" \notin FieldsContaining(ret.rows[i], ret.query)

\* the records of the store the query matches in at least one field
RecordsMatching(query) == {r \in db.experiments : FieldsMatching(r, query) # {}}

FailedUpsertReturnsFalse ==
    (ret.op = "process_extracted_text" /\ ret.audit = "lab_record_store_failed") =>
        /\ ret.stored_successfully = FALSE
        /\ UpsertsOf(ret.experiment_id) = {} =>
               /\ SectionRowsOf(ret.experiment_id) = {}
               /\ MeasurementRowsOf(ret.experiment_id) = {}
               /\ \A r \in db.experiments : r.experiment_id # ret.experiment_id

\* a step that changes the committed database returns True
OnlySuccessChangesStore ==
    db' # db => (ret'.op = "process_extracted_text" /\ ret'.stored_successfully)

\* C6: when a storage call of an upsert fails, at the first row write or at any
\* later one, the handler returns False (the except branch, with the
\* lab_record_store_failed audit event) and the committed database is what it
\* was: none of the rows the call had written is visible, then or later.  The
\* committed database changes only in a step that returns True.
C6_FailedUpsertLeavesStore == [](FailedUpsertReturnsFalse) /\ [][OnlySuccessChangesStore]_vars

\* an upsert that fails after the experiments row and a sub-row were written
C6_Witness ==
    /\ ret.op = "process_extracted_text"
    /\ ~ret.stored_successfully
    /\ ret.wrote
    /\ ret.k >= 1

TypeFilter(m, measurement_type, table) ==
    (measurement_type # None /\ measurement_type[1] # "")
        => table[m.measurement_type, measurement_type[1]]

InRange(m, min_value, max_value) ==
    /\ min_value # None => SqlCastReal(m.value) >= min_value[1]
    /\ max_value # None => SqlCastReal(m.value) <= max_value[1]

Selected(table) ==
    {m \in db.measurements :
        /\ TypeFilter(m, ret.measurement_type, table)
        /\ InRange(m, ret.min_value, ret.max_value)}

\* the rows returned are rows of S, each at most as often as S holds it
ReturnedFrom(S) ==
    \A i \in 1..Len(ret.rows) :
        LET same(m) == /\ m.experiment_id = ret.rows[i].experiment_id
                       /\ m.measurement_type = ret.rows[i].measurement_type
                       /\ m.value = ret.rows[i].value
                       /\ m.unit = ret.rows[i].unit
                       /\ m.created_at = ret.rows[i].created_at
        IN  Cardinality({j \in 1..Len(ret.rows) : same(ret.rows[j])})
                <= Cardinality({m \in S : same(m)})

C11_ShortQueryNoSuggestions ==
    ret.op = "search_suggestions" =>
        /\ Len(ret.q) < 2 => ret.response.suggestions = NoSuggestions
        /\ ret.response.suggestions # NoSuggestions => Len(Strip(ret.q)) >= 2

\* "A" is turned away while the lookup itself would have suggested A1
C11_Witness ==
    /\ ret.op = "search_suggestions"
    /\ ret.q = "A"
    /\ ret.response.suggestions = NoSuggestions
    /\ get_search_suggestions(db, "A", ret.limit).experiment_ids = <<"A1">>

\* the connections with an open write transaction
InTransaction == {p \in Procs : conn[p].in_txn}

\* a connection writes a row only while no other connection is in a transaction
WritesDoNotInterleave ==
    \A p \in Procs :
        (conn'[p].in_txn /\ conn'[p].txn # conn[p].txn) =>
            \A q \in Procs \ {p} : ~conn[q].in_txn /\ ~conn'[q].in_txn

\* a step that changes the committed database adds the rows of one upsert, all
\* of them, and nothing else
CommitInstallsWholeUpsert ==
    db' # db =>
        /\ Len(log') = Len(log) + 1
        /\ LET d == log'[Len(log')].data
               sections == db'.experiment_sections \ db.experiment_sections
               measurements == db'.measurements \ db.measurements
           IN  /\ \E r \in db'.experiments \ db.experiments : SameTopLevel(r, d)
               /\ \A r \in db.experiments :
                      r.experiment_id # d.experiment_id => r \in db'.experiments
               /\ db.experiment_sections \subseteq db'.experiment_sections
               /\ db.measurements \subseteq db'.measurements
               /\ \A r \in sections \cup measurements : r.experiment_id = d.experiment_id
               /\ Cardinality(sections) = Cardinality(NonEmptySections(d))
               /\ Cardinality(measurements) = Len(d.measurements)

\* the experiment ids of the texts
TextIds == {memo.parse[x].experiment_id : x \in DOMAIN memo.parse}

\* what an unfiltered, uncut read returns is made of whole upserts: the
\* experiments of the upserts that returned True, and for each id as many
\* measurement rows as those upserts had measurements
ReaderSeesWholeUpserts ==
    /\ (ret.op = "list_experiments" /\ ret.limit = DefaultLimit) =>
           {ret.rows[i].experiment_id : i \in 1..Len(ret.rows)}
               = {log[i].data.experiment_id : i \in 1..Len(log)}
    /\ (/\ ret.op = "search_measurements"
        /\ ret.measurement_type = None /\ ret.min_value = None /\ ret.max_value = None
        /\ ret.limit = DefaultLimit) =>
           \A id \in TextIds :
               Cardinality({i \in 1..Len(ret.rows) : ret.rows[i].experiment_id = id})
                   = MeasurementsWritten(id, Len(log))

\* C12: upserts are serialised.  At most one connection is in a write
\* transaction, the row writes of two upserts never interleave, the committed
\* database changes by the whole row set of one upsert at a time, and a reader
\* running beside an upsert sees all of its rows or none.
C12_UpsertsSerialised ==
    /\ [](Cardinality(InTransaction) <= 1 /\ ReaderSeesWholeUpserts)
    /\ [][WritesDoNotInterleave /\ CommitInstallsWholeUpsert]_vars

\* a read while one upsert has written its experiments row and a sub-row and
\* another waits for the write lock: none of the rows is seen
C12_Witness ==
    /\ ret.op = "search_measurements"
    /\ ret.measurement_type = None /\ ret.min_value = None /\ ret.max_value = None
    /\ ret.rows = <<>>
    /\ \E p, q \in Procs :
           /\ conn[p].pc = "insert_sections"
           /\ conn[p].txn.measurements # {}
           /\ conn[q].pc = "insert_experiment"

-----------------------------------------------------------------------------
(* Properties of the extractors, on the responses of ExtractSpec.          *)

\* the patterns of a field that match somewhere in the text
PatternsMatching(field, text) ==
    {k \in 1..Len(patterns[field]) : ReSearch(patterns[field][k], text, TRUE).found}

\* the trimmed group 1 of the first of them in declaration order
ByPriority(field, text) ==
    Strip(ReSearch(patterns[field][Least(PatternsMatching(field, text))], text, TRUE).group)

\* C13: each of experiment_id, date, researcher and title is the trimmed first
\* capture group of the first pattern, in declaration order, that matches
\* anywhere in the text, wherever lower-priority patterns match; a text with
\* both "Experiment ID: EXP-1" and "Exp ID: EXP-2", in either order, gives
\* experiment_id EXP-1.
C13_FirstDeclaredPatternWins ==
    ret.op = "parse_text_to_json" =>
        /\ \A field \in {"experiment_id", "date", "researcher", "title"} :
               PatternsMatching(field, ret.text) # {} =>
                   ret.data[field] = ByPriority(field, ret.text)
        /\ \A field \in {"date", "researcher", "title"} :
               PatternsMatching(field, ret.text) = {} => ret.data[field] = ""
        /\ ret.text \in {"Experiment ID: EXP-1\nExp ID: EXP-2",
                          "Exp ID: EXP-2\nExperiment ID: EXP-1"}
               => ret.data.experiment_id = "EXP-1"

\* the lower-priority pattern matches first in the text and loses
C13_Witness ==
    /\ ret.op = "parse_text_to_json"
    /\ ret.text = "Exp ID: EXP-2\nExperiment ID: EXP-1"
    /\ ret.data.experiment_id = "EXP-1"
    /\ PatternsMatching("experiment_id", ret.text) = {1, 2, 3}

\* the header patterns, and the lines of a text that one of them matches
HeaderPatterns == KeywordsFrom(section_keywords, 1)
HeaderLines(text) ==
    {i \in 1..Len(SplitLines(text)) :
        \E k \in 1..Len(HeaderPatterns) :
            ReMatch(HeaderPatterns[k].pattern, Strip(SplitLines(text)[i]), FALSE).found}

\* no field pattern and no section header matches
NothingMatches(text) ==
    /\ \A field \in {"experiment_id", "date", "researcher", "title"} :
           PatternsMatching(field, text) = {}
    /\ HeaderLines(text) = {}

\* EXP_<yyyymmdd_HHMMSS>
IsSynthesizedId(id) ==
    /\ Len(id) = 19
    /\ SubSeq(id, 1, 4) = "EXP_"
    /\ \A i \in (5..12) \cup (14..19) : Char(id, i) \in Digit
    /\ Char(id, 13) = "_"

\* C14: a text in which no field pattern and no section header matches (the
\* empty text among them) gives empty date, researcher and title, every
\* section empty and an experiment_id of the form EXP_<yyyymmdd_HHMMSS>; the
\* experiment_id of every text is non-empty.
C14_SynthesizedId ==
    ret.op = "parse_text_to_json" =>
        /\ ret.data.experiment_id # ""
        /\ NothingMatches(ret.text) =>
               /\ ret.data.date = "" /\ ret.data.researcher = "" /\ ret.data.title = ""
               /\ ret.data.methods = "" /\ ret.data.results = ""
               /\ ret.data.observations = ""
               /\ \A n \in DOMAIN ret.data.sections : ret.data.sections[n] = ""
               /\ IsSynthesizedId(ret.data.experiment_id)

\* the empty text
C14_Witness ==
    /\ ret.op = "parse_text_to_json"
    /\ ret.text = ""
    /\ NothingMatches(ret.text)
    /\ IsSynthesizedId(ret.data.experiment_id)

RECURSIVE LineMarks(_, _)
\* the lines of a text from the i-th on, each trimmed and with the header
\* found on it (as tabulated in memo)
LineMarks(lines, i) ==
    IF i > Len(lines) THEN <<>>
    ELSE <<memo[lines[i]]>> \o LineMarks(lines, i + 1)

\* the header lines among the marked lines
HeadersIn(marks) == {i \in 1..Len(marks) : marks[i].header.found}

\* the header line that follows header line i, or the end of the text
NextHeader(marks, i) ==
    IF \E j \in HeadersIn(marks) : j > i
    THEN Least({j \in HeadersIn(marks) : j > i})
    ELSE Len(marks) + 1

RECURSIVE LinesUnder(_, _)
\* the non-blank lines from line i up to the next header or the end, trimmed
LinesUnder(marks, i) ==
    IF i > Len(marks) \/ marks[i].header.found THEN <<>>
    ELSE (IF marks[i].line = "" THEN <<>> ELSE <<marks[i].line>>)
         \o LinesUnder(marks, i + 1)

\* what is left on header line i after the keyword and its colon
SeedOf(marks, i) ==
    IF marks[i].header.after \in {"", ":"} THEN <<>> ELSE <<marks[i].header.after>>

\* the buffer gathered under header line i: what is left on the header line,
\* then the lines up to the next header
BufferOf(marks, i) == SeedOf(marks, i) \o LinesUnder(marks, i + 1)

\* no section has two header lines
OpenedOnce(marks) ==
    \A i, j \in HeadersIn(marks) :
        marks[i].header.section = marks[j].header.section => i = j

\* each section with a header line holds the buffer gathered under it, and a
\* section with no header is empty
HoldsItsBuffer(marks, sections) ==
    /\ \A i \in HeadersIn(marks) :
           sections[marks[i].header.section] = JoinLines(BufferOf(marks, i))
    /\ \A n \in DOMAIN sections :
           (\A i \in HeadersIn(marks) : marks[i].header.section # n) => sections[n] = ""

OnceOpenedHoldsItsBuffer(marks, sections) ==
    OpenedOnce(marks) => HoldsItsBuffer(marks, sections)

\* C15: in a text whose sections are each opened once, every non-blank,
\* non-header line between a header and the next header (or the end) goes to
\* that header's section and to no other: the section is what is left on its
\* header line after the keyword, then those lines, trimmed and joined by
\* newlines; a section with no header is empty.
C15_LinesGoToOpenSection ==
    ret.op = "_extract_sections" =>
        OnceOpenedHoldsItsBuffer(LineMarks(SplitLines(ret.text), 1), ret.sections)

\* each section with a header line holds the lines between that header and
\* the next
HoldsLinesBetween(marks, sections) ==
    \A i \in HeadersIn(marks) :
        sections[marks[i].header.section] = JoinLines(LinesUnder(marks, i + 1))

OnceOpenedHoldsLinesBetween(marks, sections) ==
    OpenedOnce(marks) => HoldsLinesBetween(marks, sections)

\* C15 as stated: the section is exactly the lines between its header and the
\* next header.
C15_ExactlyLinesBetweenHeaders ==
    ret.op = "_extract_sections" =>
        OnceOpenedHoldsLinesBetween(LineMarks(SplitLines(ret.text), 1), ret.sections)

\* Methods then Results, a body line under each
C15_Witness ==
    /\ ret.op = "_extract_sections"
    /\ ret.text = "Methods: mix\n heat 50C \nResults\n heat 50C "
    /\ ret.sections["methods"] = "mix\nheat 50C"
    /\ ret.sections["results"] = "heat 50C"

\* type, value (in thousandths) and unit of each measurement, in list order
Readings(measurements) ==
    [i \in 1..Len(measurements) |->
        <<measurements[i].type, measurements[i].value, measurements[i].unit>>]

\* C16: "Heated to 50°C for 30min at pH 7.4" yields exactly temperature 50.0
\* "°C", pH 7.4 "", time 30.0 "min", in this order.
C16_ThreeMeasurements ==
    (ret.op = "_extract_measurements" /\ ret.text = "Heated to 50°C for 30min at pH 7.4") =>
        Readings(ret.measurements)
            = << <<"temperature", 50000, "°C">>, <<"pH", 7400, "">>, <<"time", 30000, "min">> >>

\* what the extractor yields for that text: no temperature, and the "m" of
\* "30min" read as a concentration
C16_Witness ==
    /\ ret.op = "_extract_measurements"
    /\ ret.text = "Heated to 50°C for 30min at pH 7.4"
    /\ Readings(ret.measurements)
           = << <<"pH", 7400, "">>, <<"time", 30000, "min">>, <<"concentration", 30000, "M">> >>
    /\ ret.measurements[3].raw_text = "30m"

\* the place in the declaration order of the pattern that emitted m: type and
\* unit tell the eight patterns apart
PatternOf(m) ==
    CHOOSE k \in 1..Len(measurement_patterns) :
        measurement_patterns[k].type = m.type /\ measurement_patterns[k].unit = m.unit

\* the positions of the text where s stands
Occurrences(s, text) ==
    {a \in 1..(Len(text) - Len(s) + 1) : SubSeq(text, a, a + Len(s) - 1) = s}

\* s stands in the text wholly to the left of some place where t stands
LeftOf(s, t, text) ==
    \E a \in Occurrences(s, text), b \in Occurrences(t, text) : a + Len(s) <= b

\* C17: the measurement list is grouped by pattern in declaration order
\* (temperature, pH, volume, mass, minutes, hours, concentration, percentage),
\* wherever the matches stand in the text, and the measurements of one
\* pattern are in left-to-right text order.
C17_GroupedByPattern ==
    ret.op = "_extract_measurements" =>
        \A i, j \in 1..Len(ret.measurements) :
            i < j =>
                /\ PatternOf(ret.measurements[i]) <= PatternOf(ret.measurements[j])
                /\ PatternOf(ret.measurements[i]) = PatternOf(ret.measurements[j])
                       => LeftOf(ret.measurements[i].raw_text,
                                 ret.measurements[j].raw_text, ret.text)

\* a temperature that stands after a mass in the text, listed before it
C17_Witness ==
    /\ ret.op = "_extract_measurements"
    /\ ret.text = "5g 50C"
    /\ Len(ret.measurements) = 2
    /\ ret.measurements[1].type = "temperature" /\ ret.measurements[1].raw_text = "50C"
    /\ ret.measurements[2].type = "mass" /\ ret.measurements[2].raw_text = "5g"

\* raw stands in the text with nothing but whitespace around it, and neither
\* begins nor ends with whitespace
IsTrimmed(raw, text) ==
    /\ \E a \in 0..(Len(text) - Len(raw)) :
           /\ SubSeq(text, a + 1, a + Len(raw)) = raw
           /\ \A i \in (1..a) \cup ((a + Len(raw) + 1)..Len(text)) : IsSpace(Char(text, i))
    /\ raw # "" => ~IsSpace(Char(raw, 1)) /\ ~IsSpace(Char(raw, Len(raw)))

\* C18: raw_text of the record parse_text_to_json returns is the input text
\* without its leading and trailing whitespace, and otherwise character for
\* character the input.
C18_RawTextIsTrimmedInput ==
    ret.op = "parse_text_to_json" => IsTrimmed(ret.data.raw_text, ret.text)

\* C18 as stated: raw_text equals the input verbatim, leading and trailing
\* whitespace included.
C18_RawTextVerbatim ==
    ret.op = "parse_text_to_json" => ret.data.raw_text = ret.text

\* an input with a leading and a trailing blank
C18_Witness ==
    /\ ret.op = "parse_text_to_json"
    /\ ret.text = " heat 50C "
    /\ ret.data.raw_text = "heat 50C"

\* the places in the text where the number of measurement m may stand: its
\* raw_text begins with the number, except for pH where the number comes last
NumberPlaces(m, text) ==
    {a + Least({i \in 1..Len(m.raw_text) : Char(m.raw_text, i) \in Digit}) - 1 :
        a \in Occurrences(m.raw_text, text)}

\* C19: the unit patterns are disjoint: no number of the text, with its unit,
\* is emitted as measurements of two different types.
C19_UnitsDisjoint ==
    ret.op = "_extract_measurements" =>
        \A i, j \in 1..Len(ret.measurements) :
            ret.measurements[i].type # ret.measurements[j].type =>
                NumberPlaces(ret.measurements[i], ret.text)
                    \cap NumberPlaces(ret.measurements[j], ret.text) = {}

\* one quantity read twice: "10ml" as a volume and as a concentration
C19_Witness ==
    /\ ret.op = "_extract_measurements"
    /\ ret.text = "10ml"
    /\ Readings(ret.measurements)
           = << <<"volume", 10000, "mL">>, <<"concentration", 10000, "M">> >>

\* the greatest element of a non-empty set of integers
Greatest(S) == CHOOSE i \in S : \A j \in S : j <= i

\* the value the flushes leave in a section when each writes the buffer of
\* one of the header lines in S, in text order
LastWritten(marks, S) ==
    IF S = {} THEN "" ELSE JoinLines(BufferOf(marks, Greatest(S)))

\* each section holds the buffer of its last header line that gathered anything
HoldsLastNonEmptyBuffer(marks, sections) ==
    \A n \in DOMAIN sections :
        sections[n] = LastWritten(marks, {i \in HeadersIn(marks) :
                                             /\ marks[i].header.section = n
                                             /\ BufferOf(marks, i) # <<>>})

\* C20: at every header line met while a section is open, and at the end of
\* the text, the open section is set to its buffer joined by newlines, but
\* only when the buffer is not empty: a section ends with the buffer of its
\* last header occurrence that gathered anything, and is empty if none did.
C20_FlushSkipsEmptyBuffer ==
    ret.op = "_extract_sections" =>
        HoldsLastNonEmptyBuffer(LineMarks(SplitLines(ret.text), 1), ret.sections)

\* each section holds the buffer of its last header line
HoldsLastBuffer(marks, sections) ==
    \A n \in DOMAIN sections :
        sections[n] = LastWritten(marks, {i \in HeadersIn(marks) :
                                             marks[i].header.section = n})

\* C20 as stated: the flush writes an empty buffer too, so a section ends
\* with the buffer of its latest header occurrence.
C20_FlushWritesEmptyBuffer ==
    ret.op = "_extract_sections" =>
        HoldsLastBuffer(LineMarks(SplitLines(ret.text), 1), ret.sections)

\* Methods with a body, then Methods again with none
C20_Witness ==
    /\ ret.op = "_extract_sections"
    /\ ret.text = "Methods:\n heat 50C \nMethods:"
    /\ ret.sections["methods"] = "heat 50C"

\* the header lines of section n
HeadersOf(marks, n) == {i \in HeadersIn(marks) : marks[i].header.section = n}

\* a section with several header lines, a body under each, holds the body of
\* the last of them
HoldsLastBodyOnly(marks, sections) ==
    \A n \in DOMAIN sections :
        (/\ Cardinality(HeadersOf(marks, n)) >= 2
         /\ \A i \in HeadersOf(marks, n) : BufferOf(marks, i) # <<>>)
            => sections[n] = JoinLines(BufferOf(marks, Greatest(HeadersOf(marks, n))))

\* C26: when the header of one section occurs more than once and each
\* occurrence has a non-empty body, the section ends with the body of the
\* last occurrence only: earlier bodies are overwritten, not concatenated.
C26_LastOccurrenceWins ==
    ret.op = "_extract_sections" =>
        HoldsLastBodyOnly(LineMarks(SplitLines(ret.text), 1), ret.sections)

\* Methods twice, "mix" under the first and a line under the second
C26_Witness ==
    /\ ret.op = "_extract_sections"
    /\ ret.text = "Methods: mix\nMethods:\n heat 50C "
    /\ ret.sections["methods"] = "heat 50C"

\* the first declared section with a keyword matching one of the lines, for
\* each line that matches any
SectionsOpened(lines) ==
    {SectionNames[Least(memo[lines[i]].matching)] :
        i \in {j \in 1..Len(lines) : memo[lines[j]].matching # {}}}

\* the line begins with the word, letter case ignored
BeginsWith(line, word) ==
    /\ Len(line) >= Len(word)
    /\ \A k \in 1..Len(word) : ToLower(Char(line, k)) = Char(word, k)

\* a section has a value only if it is the first declared section matching
\* some line; a header with lines under it gives that section a value
OpenedInDeclaredOrder(lines, opened, sections) ==
    /\ \A n \in DOMAIN sections : sections[n] # "" => n \in opened
    /\ (Len(lines) = 2 /\ memo[lines[1]].matching # {}
                      /\ memo[lines[2]].matching = {} /\ Strip(lines[2]) # "")
           => \A n \in opened : sections[n] # ""
    /\ sections["procedure"] # ""
           => \E i \in 1..Len(lines) :
                  BeginsWith(Strip(lines[i]), "step") \/ BeginsWith(Strip(lines[i]), "process")

\* C21: a line is tested against the sections in the order methods, results,
\* observations, materials, procedure, discussion, conclusion and opens the
\* first with a matching keyword: a header beginning with "procedure" opens
\* methods, and procedure is opened only by step(s) or process.
C21_EarlierSectionWins ==
    ret.op = "_extract_sections" =>
        OpenedInDeclaredOrder(SplitLines(ret.text), SectionsOpened(SplitLines(ret.text)),
                              ret.sections)

\* "Procedure:" is a keyword of methods and of procedure
C21_Witness ==
    /\ ret.op = "_extract_sections"
    /\ ret.text = "Procedure:\ndid it"
    /\ SectionsMatching("Procedure:") = {1, 5}
    /\ ret.sections["methods"] = "did it"
    /\ ret.sections["procedure"] = ""

\* the lines that some section's keyword matches
HeadersAmong(lines) == {i \in 1..Len(lines) : memo[lines[i]].matching # {}}

\* the lines from the first of the header lines on
FromFirstHeader(lines, headers) == SubSeq(lines, Least(headers), Len(lines))

\* the sections are those of the text without the lines before its first
\* header, and all empty when there is no header
LinesBeforeHeaderDropped(lines, headers, sections) ==
    IF headers = {}
    THEN \A n \in DOMAIN sections : sections[n] = ""
    ELSE Least(headers) > 1 =>
             sections = _extract_sections(JoinLines(FromFirstHeader(lines, headers)))

\* C22: a non-header line before the first section header is discarded: it
\* is in no section of the result, and a text with no header line leaves
\* every section empty.
C22_LinesBeforeFirstHeaderDiscarded ==
    ret.op = "_extract_sections" =>
        LinesBeforeHeaderDropped(SplitLines(ret.text), HeadersAmong(SplitLines(ret.text)),
                                 ret.sections)

\* a body line before the first header and the same line after it
C22_Witness ==
    /\ ret.op = "_extract_sections"
    /\ ret.text = " heat 50C \nMethods:\n heat 50C "
    /\ ret.sections["methods"] = "heat 50C"
    /\ \A n \in DOMAIN ret.sections : n # "methods" => ret.sections[n] = ""

-----------------------------------------------------------------------------
(* Properties of the store over time.                                      *)

\* the clock reading a synthesized id was made at: its minutes and seconds
ClockOf(id) == 60 * DigitsToInt(SubSeq(id, 16, 17)) + DigitsToInt(SubSeq(id, 18, 19))

\* the synthesized ids of the upserts made so far
SynthesizedSoFar ==
    {log[i].data.experiment_id : i \in {j \in 1..Len(log) : IsSynthesizedId(log[j].data.experiment_id)}}

\* a text with no id match is given the id of the second it is extracted in:
\* the id of an earlier extraction of that second, and of no other second
IdOfTheSecond ==
    \A p \in Procs :
        (/\ conn[p].pc = "idle"
         /\ conn'[p].pc = "insert_experiment"
         /\ PatternsMatching("experiment_id", conn'[p].text[1]) = {})
            => /\ IsSynthesizedId(conn'[p].data[1].experiment_id)
               /\ ClockOf(conn'[p].data[1].experiment_id) = now
               /\ \A id \in SynthesizedSoFar :
                      ClockOf(id) = now <=> id = conn'[p].data[1].experiment_id

\* two upserts under one synthesized id leave one row, that of the later
CollisionKeepsLater ==
    \A i, j \in 1..Len(log) :
        (i < j /\ log[i].data.experiment_id = log[j].data.experiment_id
               /\ IsSynthesizedId(log[i].data.experiment_id))
            => /\ Cardinality({r \in db.experiments :
                                  r.experiment_id = log[i].data.experiment_id}) = 1
               /\ \A r \in db.experiments :
                      r.experiment_id = log[i].data.experiment_id
                          => SameTopLevel(r, log[Latest(r.experiment_id)].data)

\* C23: synthesized ids are unique per clock second only: texts with no id
\* match extracted in different seconds get different ids, two extracted in
\* the same second get the same id, and upserting both leaves one top-level
\* row holding the fields of the second.
C23_SynthesizedIdPerSecond == [](CollisionKeepsLater) /\ [][IdOfTheSecond]_vars

\* two different texts without id upserted in one second
C23_Witness ==
    /\ Len(log) = 2
    /\ log[1].text = "heat it" /\ log[2].text = "Title: warm\nstir it"
    /\ log[1].data.experiment_id = log[2].data.experiment_id
    /\ \A r \in db.experiments : r.title = "warm" /\ r.raw_text = "Title: warm\nstir it"
    /\ Cardinality(db.experiments) = 1

\* the experiment_id of the most recent upsert, and its row
LastUpserted == log[Len(log)].data.experiment_id
RowOf(id) == CHOOSE r \in db.experiments : r.experiment_id = id

\* in a list the record comes before every record created in an earlier second
ListedBeforeOlder(rows, id) ==
    \A i \in 1..Len(rows) :
        rows[i].created_at < RowOf(id).created_at
            => \E k \in 1..(i - 1) : rows[k].experiment_id = id

\* in a search result the record comes before every record of the same score
\* created in an earlier second
TieBrokenBeforeOlder(rows, id) ==
    \A i, k \in 1..Len(rows) :
        (/\ rows[k].experiment_id = id
         /\ rows[i].relevance_score = rows[k].relevance_score
         /\ rows[i].created_at < rows[k].created_at) => k < i

\* C24: an upsert of an existing experiment_id replaces the whole top-level
\* row, so its creation time is that of the latest upsert: no row of the table
\* is younger, and the record is ordered before every record created in an
\* earlier second in list() and in search tie-breaks.
C24_ReUpsertRenewsCreation ==
    log # <<>> =>
        /\ \A r \in db.experiments : r.created_at <= RowOf(LastUpserted).created_at
        /\ ret.op = "list_experiments" => ListedBeforeOlder(ret.rows, LastUpserted)
        /\ ret.op = "search_experiments" => TieBrokenBeforeOlder(ret.rows, LastUpserted)

\* C24 as stated: after a re-upsert the record is ordered before all records
\* upserted earlier.
C24_ReUpsertedListedFirst ==
    (/\ ret.op = "list_experiments"
     /\ log # <<>>
     /\ Cardinality(UpsertsOf(LastUpserted)) >= 2) => ret.rows[1].experiment_id = LastUpserted

\* A1, then B2, then A1 again a second later: A1 is listed first
C24_Witness ==
    /\ ret.op = "list_experiments"
    /\ Len(log) = 3
    /\ log[1].data.experiment_id = "A1" /\ log[2].data.experiment_id = "B2"
    /\ log[3].data.experiment_id = "A1"
    /\ Len(ret.rows) = 2
    /\ ret.rows[1].experiment_id = "A1" /\ ret.rows[1].title = "cool"
    /\ ret.rows[1].created_at > ret.rows[2].created_at

\* every section row and measurement row of d has a row of experiments with
\* its experiment_id
HasParents(d) ==
    \A r \in d.experiment_sections \cup d.measurements :
        \E e \in d.experiments : e.experiment_id = r.experiment_id

\* C25: in every reachable state, after failed upserts and during concurrent
\* ones, every experiment_sections row and measurements row carries the
\* experiment_id of an experiments row, in the committed database and in
\* what an open transaction has written, so the join of search_measurements
\* drops no stored measurement.
C25_ReferentialIntegrity ==
    /\ HasParents(db)
    /\ \A p \in Procs : conn[p].in_txn => HasParents(conn[p].txn)
    /\ (/\ ret.op = "search_measurements"
        /\ ret.measurement_type = None /\ ret.min_value = None /\ ret.max_value = None
        /\ ret.limit = DefaultLimit)
           => Len(ret.rows) = Cardinality(db.measurements)

\* all stored measurements returned while a failed upsert still holds its
\* connection
C25_Witness ==
    /\ ret.op = "search_measurements"
    /\ ret.measurement_type = None /\ ret.min_value = None /\ ret.max_value = None
    /\ ret.limit = DefaultLimit
    /\ Len(ret.rows) >= 1
    /\ \E p \in Procs : conn[p].pc = "leaked" /\ conn[p].txn.measurements # db.measurements

-----------------------------------------------------------------------------
(* Properties of the jobs.                                                  *)

\* the job ids that have a row of processing_jobs
Rows == {j \in JobIds : jobs[j] # NoJob}

Terminal == {"completed", "failed"}

\* the status of row j changes in this step, from a to b
Moves(j, a, b) == jobs[j].status = a /\ jobs'[j].status = b

\* a row with a terminal status stays as it is
StaysTerminal(j) ==
    jobs[j].status \in Terminal =>
        /\ jobs'[j].status = jobs[j].status
        /\ jobs'[j].completed_at = jobs[j].completed_at

\* started_at, once set, stays as it is
StartedOnce(j) == jobs[j].started_at # None => jobs'[j].started_at = jobs[j].started_at

\* C27: during a task run the status of a ProcessingJob only moves forward,
\* pending -> processing -> completed or failed, and from pending straight to
\* completed or failed when the update that sets processing was not
\* committed; completed and failed are terminal (status and completed_at
\* never change again), and started_at is set at most once.
C27_StatusMovesForward ==
    [][\A j \in Rows :
          /\ \/ jobs'[j].status = jobs[j].status
             \/ Moves(j, "pending", "processing")
             \/ \E t \in Terminal : Moves(j, "processing", t) \/ Moves(j, "pending", t)
          /\ StaysTerminal(j)
          /\ StartedOnce(j)]_vars

\* C27 as stated: the status reaches completed or failed only from processing.
C27_ThroughProcessingOnly ==
    [][\A j \in Rows :
          /\ \/ jobs'[j].status = jobs[j].status
             \/ Moves(j, "pending", "processing")
             \/ \E t \in Terminal : Moves(j, "processing", t)
          /\ StaysTerminal(j)
          /\ StartedOnce(j)]_vars

\* a job went through processing and failed, and a second has passed since
C27_Witness ==
    \E j \in Rows :
        /\ jobs[j].status = "failed"
        /\ jobs[j].started_at = <<0>>
        /\ jobs[j].completed_at = <<0>>
        /\ tasks[j].state = "FAILURE"
        /\ now = 1

\* the rows that a task updates
TaskRows == {j \in Rows : jobs[j].job_type \in {"image_processing", "report_generation"}}

\* what the status completed or failed says about the other columns of a row
TerminalFitsRow(j) ==
    /\ jobs[j].status = "completed" =>
           jobs[j].progress = 100 /\ jobs[j].result # None
    /\ jobs[j].status = "failed" =>
           /\ jobs[j].progress = 0
           /\ jobs[j].error_message # None
           /\ jobs[j].error_message # <<"">>

\* what the status processing says about the progress of a row
ProcessingFitsRow(j) ==
    jobs[j].status = "processing" => jobs[j].progress >= 10 /\ jobs[j].progress <= 90

\* the progress of a row that is and stays processing does not go down
ProgressGrows(j) ==
    (jobs[j].status = "processing" /\ jobs'[j].status = "processing") =>
        jobs'[j].progress >= jobs[j].progress

\* C28: in every reachable state of a ProcessingJob, status completed implies
\* progress = 100 and a stored result, and status failed implies progress = 0
\* and a non-empty error_message; while the status is processing the progress
\* never decreases, and it is between 10 and 90 if the row is one that a task
\* updates (an image_processing or report_generation job).
C28_StatusFitsProgress ==
    /\ [](\A j \in Rows : TerminalFitsRow(j))
    /\ [](\A j \in TaskRows : ProcessingFitsRow(j))
    /\ [][\A j \in Rows : ProgressGrows(j)]_vars

\* C28 as stated: while the status of any row is processing its progress is
\* between 10 and 90.
C28_ProcessingBetween10And90 ==
    /\ [](\A j \in Rows : TerminalFitsRow(j) /\ ProcessingFitsRow(j))
    /\ [][\A j \in Rows : ProgressGrows(j)]_vars

\* a job that failed at the API call, at 50 percent, on an exception without
\* a message
C28_Witness ==
    \E j \in Rows :
        /\ jobs[j].status = "failed"
        /\ jobs[j].started_at # None
        /\ jobs[j].error_message = <<"Image processing failed: ">>
        /\ tasks[j].pc = 6

\* the task enqueued under j has ended, by return or by raise
Ended(j) == tasks[j] # NoTask /\ tasks[j].state \in {"SUCCESS", "FAILURE"}

\* C29: an image-processing job that ends with status failed has created no
\* LabNote: once process_image_async has committed the LabNote row no later
\* step makes the task fail, and the job ends completed.
C29_FailedJobHasNoLabNote ==
    \A j \in Rows :
        /\ jobs[j].status = "failed" => j \notin lab_notes
        /\ (j \in lab_notes /\ Ended(j)) =>
               tasks[j].state = "SUCCESS" /\ jobs[j].status = "completed"

\* the LabNote row is committed, reading it back for result_data raises, and
\* the except clause marks the job failed
C29_Witness ==
    \E j \in Rows :
        /\ j \in lab_notes
        /\ tasks[j].state = "FAILURE"
        /\ jobs[j].status = "failed"
        /\ jobs[j].error_message = <<"Image processing failed: Instance has been deleted">>

\* row j was created by process_image_endpoint or generate_report_async_endpoint
\* and has reached a terminal status
HasEnded(j) == j \in TaskRows /\ jobs[j].status \in Terminal

\* C30: every ProcessingJob row created by process_image_endpoint or
\* generate_report_async_endpoint eventually reaches status completed or
\* failed, also when enqueueing the task fails and when a job-progress update
\* fails: no job stays pending or processing forever.
C30_EveryJobEnds == \A j \in JobIds : (j \in TaskRows) ~> HasEnded(j)

\* the row is committed and apply_async raises: a pending row without a task
C30_Witness ==
    \E j \in TaskRows :
        /\ tasks[j] = NoTask
        /\ jobs[j].status = "pending"
        /\ now = 1

=============================================================================
